---- MODULE Spec2Model ----
(***************************************************************************)
(* A model of the omni-agents pipeline core: the script cache, the         *)
(* generate-execute-classify retry loop (execute_with_retry and the        *)
(* generate_code closure of PipelineOrchestrator._run_agent) and the       *)
(* adversarial resolution loop (ResolutionLoop).                           *)
(*                                                                         *)
(* Specifications:                                                         *)
(*   Spec          one _run_agent call, with any arguments, over a script  *)
(*                 cache left by earlier runs;                             *)
(*   SpecResolve   ResolutionLoop.resolve, re-running stages through the   *)
(*                 same _run_agent actions;                                *)
(*   SpecDiagnose  ResolutionLoop._diagnose applied to bounded summaries.  *)
(***************************************************************************)
EXTENDS Integers, Sequences, FiniteSets, TLC

None == "None"

(***************************************************************************)
(* Script texts.  A text is a body and its line-ending style: the cache    *)
(* stores texts in files and reads them back in text mode, which is a      *)
(* conversion (see ReadText).                                              *)
(***************************************************************************)
Bodies == {"script_1", "script_2"}
Eols == {"lf", "crlf"}
Scripts == [body : Bodies, eol : Eols]

\* Path.write_text on a POSIX host: "\n" is written as "\n", "\r" is untouched.
WriteText(code) == code

\* Path.read_text: universal newlines, "\r\n" and "\r" are read back as "\n".
ReadText(content) == [content EXCEPT !.eol = "lf"]

Tracks == {"track_a", "track_b"}
StageOrder == <<"sdtm", "adam", "stats">>
StageNames == {"sdtm", "adam", "stats"}

\* ScriptCache.cache_key: one key per (agent, track) for a fixed trial config.
cache_key(agent, track_id) == <<agent, track_id>>
Keys == {cache_key(a, t) : a \in StageNames, t \in Tracks}

\* The value standing for "no script" (a missing cache file, get returning None).
NoScript == [body |-> None, eol |-> "lf"]

\* ScriptCache.get: the file's text, or None when the file does not exist.
CacheGet(c, key) == IF c[key] = NoScript THEN NoScript ELSE ReadText(c[key])

\* ScriptCache.put: (over)write the file of the key.
CachePut(c, key, code) == [c EXCEPT ![key] = WriteText(code)]

(***************************************************************************)
(* Sandbox results.  A stderr is the set of the kinds of lines it holds.   *)
(***************************************************************************)
LineKinds ==
    { "noise",      \* package loading noise, matched by _NOISE_PATTERNS
      "warning",    \* any other line that is no error
      "err_env",    \* Error in library(x) : there is no package called 'x'
      "warn_path",  \* In file(...) : cannot open file 'x': No such file or directory
      "err_stat",   \* Error in solve.default(...) : ... singular
      "warn_stat",  \* Warning: ... did not reach convergence
      "err_bug",    \* Error in f() : object 'x' not found
      "err_other" } \* Error: <anything without a known signature>

\* Lines whose stripped text starts with "Error" or "error".
ErrorLines == {"err_env", "err_stat", "err_bug", "err_other"}

StderrDomain ==
    { {}, {"noise"}, {"warning"}, {"noise", "warn_stat"},
      {"err_env"}, {"err_stat"}, {"err_bug"}, {"err_other"},
      {"noise", "err_bug", "warn_path"} }

\* RExecutor.execute: a timeout reports exit code -1 and timed_out.
DockerResults ==
    { [exit_code |-> e, timed_out |-> (e = -1), stderr |-> s] :
        e \in {0, 1, -1}, s \in StderrDomain }

\* filter_r_stderr: noise lines are dropped, everything else is kept.
filter_r_stderr(stderr) == stderr \ {"noise"}

\* The value standing for previous_error = None (no stderr at all).
NoStderr == {None}

\* Python truthiness of a str | None: None and the empty string are falsy.
Truthy(s) == s # NoStderr /\ s # {}

CODE_BUG == "code_bug"
ENVIRONMENT_ERROR == "environment_error"
DATA_PATH_ERROR == "data_path_error"
STATISTICAL_ERROR == "statistical_error"
TIMEOUT == "timeout"
UNKNOWN == "unknown"
ErrorClassification ==
    {CODE_BUG, ENVIRONMENT_ERROR, DATA_PATH_ERROR, STATISTICAL_ERROR, TIMEOUT, UNKNOWN}

HasEnv(stderr) == "err_env" \in stderr
HasPath(stderr) == "warn_path" \in stderr
HasStat(stderr) == stderr \cap {"err_stat", "warn_stat"} # {}
\* "^Error in " and the object-not-found patterns.
HasCodeBug(stderr) == stderr \cap {"err_env", "err_stat", "err_bug"} # {}

ClassifyPathFirst(stderr, exit_code, timed_out) ==
    IF timed_out THEN TIMEOUT
    ELSE IF HasPath(stderr) THEN DATA_PATH_ERROR
    ELSE IF HasEnv(stderr) THEN ENVIRONMENT_ERROR
    ELSE IF HasStat(stderr) THEN STATISTICAL_ERROR
    ELSE IF HasCodeBug(stderr) THEN CODE_BUG
    ELSE UNKNOWN

classify_error(stderr, exit_code, timed_out) ==
    IF timed_out THEN TIMEOUT
    ELSE IF HasEnv(stderr) THEN ENVIRONMENT_ERROR
    ELSE IF HasPath(stderr) THEN DATA_PATH_ERROR
    ELSE IF HasStat(stderr) THEN STATISTICAL_ERROR
    ELSE IF HasCodeBug(stderr) THEN CODE_BUG
    ELSE UNKNOWN

IsRetriableAll(error_class) == error_class \in ErrorClassification

is_retriable(error_class) ==
    error_class \in {CODE_BUG, DATA_PATH_ERROR, UNKNOWN, TIMEOUT}

IsRealErrorNever(stderr) == FALSE

is_real_error(stderr) == stderr \cap ErrorLines # {}

\* The success test of execute_with_retry.
IsSuccess(r) == r.exit_code = 0 /\ ~r.timed_out /\ ~is_real_error(r.stderr)

\* max_attempts as _run_agent passes it.
max_attempts == 3

(***************************************************************************)
(* State.                                                                  *)
(***************************************************************************)
VARIABLES
    cache,          \* ScriptCache: key -> file content, NoScript when absent
    pc,             \* _run_agent: "idle", "generate", "execute", "done"
    call,           \* the arguments of the running _run_agent call
    attempt_num,    \* execute_with_retry: the loop counter
    last_error,     \* execute_with_retry: last_error
    attempts,       \* execute_with_retry: the attempt ledger
    code,           \* execute_with_retry: the script of this attempt
    docker_result,  \* execute_with_retry: the filtered result of the last execution
    gen,            \* what the last generate_code call did
    outcome,        \* how the last _run_agent call ended
    delivered,      \* the ledger the caller received from it
    executed,       \* attempt numbers of the sandbox executions completed in this call
    succeeded,      \* scripts with a successful sandbox execution in this call
    rpc,            \* resolve: "off", "iterate", "rerun", "compare", "diagnosed",
                    \*          "returned", "raised"
    max_iterations, \* ResolutionLoop.max_iterations
    iteration,      \* resolve: the loop counter
    current_disagreement,  \* resolve: current_disagreement
    failing_track,  \* resolve: failing_track
    stages_to_run,  \* _rerun_from_stage: the stages of the cascade not yet started
    rerun_log,      \* the _run_agent calls the running _rerun_from_stage has made
    reruns,         \* the number of _rerun_from_stage calls that returned
    compare_log,    \* per post-rerun compare_all_stages: whether any stage disagreed
    result,         \* the ResolutionResult resolve returned
    hint_text,      \* resolve: the text of the hint of the running iteration
    gate,           \* per track and stage, how its last run stands: "pending",
                    \* "running", "validated" (run succeeded and schema
                    \* validation passed), "invalid", "failed"
    run_pc,         \* run: "off", "simulator", "tracks", "resolving", "verdict",
                    \*      "report", "writer", "completed", "raised"
    resolution_enabled,  \* settings.resolution.enabled
    track_pc,       \* per track, _run_track: "idle", the stage whose _run_agent is
                    \* awaited, "done", "raised"
    state,          \* the PipelineState object
    state_file,     \* pipeline_state.json as last saved
    recorded,       \* the steps _record_step was called for
    comparison_result,  \* run: comparison_result of the first comparison
    verdict,        \* the verdict run arrived at
    verdict_file,   \* consensus/verdict.json
    raised,         \* the exception gather holds or that left run
    writer_starts,  \* how often the medical writer step was started
    stage_comparisons_file,  \* consensus/stage_comparisons.json
    new_comparison_result,   \* resolve: the result of its latest compare_all_stages
    exec,           \* RExecutor.execute running in its worker thread: position,
                    \* container, locals, Docker calls made, warnings logged
    abort,          \* the user's interrupt: "none", "requested", "handled"
    callback,       \* self.callback: its kind and the hook calls it has received
    arg,            \* the argument a pure function is applied to
    ret             \* its result

agent_vars ==
    <<cache, pc, call, attempt_num, last_error, attempts, code, docker_result, gen,
      outcome, delivered, executed, succeeded>>

resolve_vars ==
    <<rpc, max_iterations, iteration, current_disagreement, failing_track,
      stages_to_run, rerun_log, reruns, compare_log, result, hint_text, gate,
      new_comparison_result>>

run_vars ==
    <<run_pc, resolution_enabled, track_pc, state, state_file, recorded,
      comparison_result, verdict, verdict_file, raised, writer_starts,
      stage_comparisons_file>>

exec_vars == <<exec, abort>>

hook_vars == <<callback>>

pure_vars == <<arg, ret>>

vars == <<agent_vars, resolve_vars, run_vars, exec_vars, hook_vars, pure_vars>>

\* The callback the orchestrator was constructed with: None, a ProgressCallback
\* or an InteractiveCallback.  Of the hook calls it receives, the step names
\* of on_step_start, on_step_complete, on_step_retry and on_step_fail, the
\* pipeline hooks and the checkpoints are kept.
CallbackKinds == {"none", "progress", "interactive"}

NewCallback(kind) ==
    [kind |-> kind, started |-> {}, completed |-> {}, retried |-> {}, failed |-> {},
     pipeline |-> <<>>, checkpoints |-> 0]

\* A step name as the hooks receive it: f"{stage}_{track_id}" for a track's
\* step, the bare name for a shared step.
HookName(stage, track_id) == IF track_id = "shared" THEN <<stage, "">> ELSE <<stage, track_id>>

\* agent.name: "simulator", "sdtm", "adam", "stats", "medical_writer".
AgentName(agent) == <<agent, "">>

\* if self.callback: self.callback.on_step_start(name, ...)
on_step_start(cb, name) ==
    IF cb.kind = "none" THEN cb ELSE [cb EXCEPT !.started = @ \cup {name}]

\* if self.callback: self.callback.on_step_complete(name, ...)
on_step_complete(cb, name) ==
    IF cb.kind = "none" THEN cb ELSE [cb EXCEPT !.completed = @ \cup {name}]

\* generate_code: if attempt > 1 and previous_error and self.callback:
\*     self.callback.on_step_retry(agent.name, ...)
on_step_retry(cb, agent, attempt, previous_error) ==
    IF attempt > 1 /\ Truthy(previous_error) /\ cb.kind # "none"
    THEN [cb EXCEPT !.retried = @ \cup {AgentName(agent)}]
    ELSE cb

\* _run_agent, except (NonRetriableError, MaxRetriesExceededError):
\*     if self.callback: self.callback.on_step_fail(agent.name, ...)
on_step_fail(cb, agent) ==
    IF cb.kind = "none" THEN cb ELSE [cb EXCEPT !.failed = @ \cup {AgentName(agent)}]

\* if self.callback: self.callback.on_pipeline_complete(...)
on_pipeline_complete(cb) ==
    IF cb.kind = "none" THEN cb ELSE [cb EXCEPT !.pipeline = Append(@, "complete")]

InitHooksOff == callback = NewCallback("none")

\* The callback after a _run_agent call that is taken by its outcome: the
\* call made no retry hook call, or on_step_retry with its agent's name.
AgentHooks(cb, agent) == {cb, on_step_retry(cb, agent, 2, {"err_bug"})}

NoCall == [agent |-> None, track_id |-> None, hint |-> FALSE]

\* gen.prompt: the previous_error the generation prompt showed: "none", "hint"
\* (the caller's context["previous_error"]) or "last_error" (the loop's stderr).
NoGen == [attempt |-> 0, cache_read |-> FALSE, hit |-> FALSE, llm_called |-> FALSE,
          prompt |-> "none"]
NoResult == [exit_code |-> 0, timed_out |-> FALSE, stderr |-> NoStderr]

CallKey == cache_key(call.agent, call.track_id)

InitAgent ==
    /\ pc = "idle"
    /\ call = NoCall
    /\ attempt_num = 0
    /\ last_error = NoStderr
    /\ attempts = <<>>
    /\ code = NoScript
    /\ docker_result = NoResult
    /\ gen = NoGen
    /\ outcome = None
    /\ delivered = <<>>
    /\ executed = <<>>
    /\ succeeded = {}

(***************************************************************************)
(* _run_agent: the call of execute_with_retry with the generate_code       *)
(* closure.  hint tells whether the caller put a resolution hint into      *)
(* context["previous_error"].                                              *)
(***************************************************************************)
StartCall(agent, track_id, hint) ==
    /\ pc' = "generate"
    /\ call' = [agent |-> agent, track_id |-> track_id, hint |-> hint]
    /\ attempt_num' = 1
    /\ last_error' = NoStderr
    /\ attempts' = <<>>
    /\ code' = NoScript
    /\ docker_result' = NoResult
    /\ gen' = NoGen
    /\ outcome' = None
    /\ delivered' = <<>>
    /\ executed' = <<>>
    /\ succeeded' = {}
    /\ UNCHANGED cache

\* _run_agent is left, by return or by exception: its locals are gone.
EndCall ==
    /\ pc' = "idle"
    /\ call' = NoCall
    /\ attempt_num' = 0
    /\ last_error' = NoStderr
    /\ attempts' = <<>>
    /\ code' = NoScript
    /\ docker_result' = NoResult
    /\ gen' = NoGen
    /\ outcome' = None
    /\ delivered' = <<>>
    /\ executed' = <<>>
    /\ succeeded' = {}
    /\ UNCHANGED cache

\* generate_code reads the cache on the first attempt without a previous error.
TryCache(previous_error, attempt) == attempt = 1 /\ previous_error = NoStderr

\* ctx = context.copy(); if previous_error: ctx = make_retry_context(...):
\* which previous_error the prompt built from ctx shows.
PromptError(hint, previous_error) ==
    IF Truthy(previous_error) THEN "last_error" ELSE IF hint THEN "hint" ELSE "none"

\* The script generate_code returns on a cache hit.
CachedScript(c, key) == CacheGet(c, key)

\* The cache-hit branch of generate_code: the cached script, no generation.
GenerateHit ==
    /\ UNCHANGED <<resolve_vars, run_vars, exec_vars, hook_vars, pure_vars>>
    /\ pc = "generate"
    /\ TryCache(last_error, attempt_num)
    /\ CacheGet(cache, CallKey) # NoScript
    /\ code' = CachedScript(cache, CallKey)
    /\ gen' = [attempt |-> attempt_num, cache_read |-> TRUE, hit |-> TRUE,
               llm_called |-> FALSE, prompt |-> "none"]
    /\ pc' = "execute"
    /\ UNCHANGED <<cache, call, attempt_num, last_error, attempts, docker_result,
                   outcome, delivered, executed, succeeded>>

\* When generate_code stores the generated script: on the first attempt.
StoresScript(previous_error, attempt) == attempt = 1 /\ previous_error = NoStderr

\* The generation branch: agent.generate_code returns a script, which is
\* stored in the cache on the first attempt, before it is executed.
GenerateLLM ==
    /\ UNCHANGED <<resolve_vars, run_vars, exec_vars, pure_vars>>
    /\ pc = "generate"
    /\ callback' = on_step_retry(callback, call.agent, attempt_num, last_error)
    /\ ~(TryCache(last_error, attempt_num) /\ CacheGet(cache, CallKey) # NoScript)
    /\ \E text \in Scripts :
        /\ code' = text
        /\ cache' = IF StoresScript(last_error, attempt_num)
                       THEN CachePut(cache, CallKey, text)
                       ELSE cache
    /\ gen' = [attempt |-> attempt_num,
               cache_read |-> TryCache(last_error, attempt_num), hit |-> FALSE,
               llm_called |-> TRUE, prompt |-> PromptError(call.hint, last_error)]
    /\ pc' = "execute"
    /\ UNCHANGED <<call, attempt_num, last_error, attempts, docker_result,
                   outcome, delivered, executed, succeeded>>

\* What reaches the caller when generate_code or executor.execute raises: the
\* exception leaves execute_with_retry, whose attempts list is a local.
LedgerOnException(ledger) == <<>>

\* The generation branch when the LLM call fails or its answer holds no R code
\* (BaseAgent.generate_code raises): the exception leaves execute_with_retry.
GenerateRaises ==
    /\ UNCHANGED <<resolve_vars, run_vars, exec_vars, pure_vars>>
    /\ pc = "generate"
    /\ callback' = on_step_retry(callback, call.agent, attempt_num, last_error)
    /\ ~(TryCache(last_error, attempt_num) /\ CacheGet(cache, CallKey) # NoScript)
    /\ gen' = [attempt |-> attempt_num,
               cache_read |-> TryCache(last_error, attempt_num), hit |-> FALSE,
               llm_called |-> TRUE, prompt |-> PromptError(call.hint, last_error)]
    /\ pc' = "done"
    /\ outcome' = "generator_error"
    /\ delivered' = LedgerOnException(attempts)
    /\ UNCHANGED <<cache, call, attempt_num, last_error, attempts, code, docker_result,
                   executed, succeeded>>

\* A ledger entry; generated_code, docker_result and timestamp are not kept.
AgentAttempt(n, ec) == [attempt_number |-> n, error_class |-> ec]

LoopContinuesOnceMore(n) == n < max_attempts + 1

\* for attempt_num in range(1, max_attempts + 1): whether another round follows.
LoopContinues(n) == n < max_attempts

\* executor.execute returns: filter, success test, classification, ledger entry
\* and the decision to return, raise or go round again.
ExecuteReturnsWith(raw) ==
    /\ UNCHANGED <<resolve_vars, run_vars, pure_vars>>
    /\ pc = "execute"
    /\
        LET r == [raw EXCEPT !.stderr = filter_r_stderr(raw.stderr)]
            ec == IF IsSuccess(r) THEN None
                  ELSE classify_error(r.stderr, r.exit_code, r.timed_out)
            ledger == Append(attempts, AgentAttempt(attempt_num, ec))
        IN  /\ docker_result' = r
            /\ attempts' = ledger
            /\ executed' = Append(executed, attempt_num)
            /\ IF ec = None
               THEN /\ pc' = "done"
                    /\ outcome' = "returned"
                    /\ delivered' = ledger
                    /\ succeeded' = succeeded \cup {code}
                    /\ UNCHANGED <<attempt_num, last_error, hook_vars>>
               ELSE /\ UNCHANGED succeeded
                    /\ IF ~is_retriable(ec)
                       THEN /\ pc' = "done"
                            /\ outcome' = "NonRetriableError"
                            /\ delivered' = ledger
                            /\ callback' = on_step_fail(callback, call.agent)
                            /\ UNCHANGED <<attempt_num, last_error>>
                       ELSE /\ last_error' = r.stderr
                            /\ IF LoopContinues(attempt_num)
                               THEN /\ attempt_num' = attempt_num + 1
                                    /\ pc' = "generate"
                                    /\ UNCHANGED <<outcome, delivered, hook_vars>>
                               ELSE /\ pc' = "done"
                                    /\ outcome' = "MaxRetriesExceededError"
                                    /\ delivered' = ledger
                                    /\ callback' = on_step_fail(callback, call.agent)
                                    /\ UNCHANGED attempt_num
    /\ UNCHANGED <<cache, call, code, gen>>

\* executor.execute returns any of the results a sandbox run can give.
ExecuteReturns ==
    /\ \E raw \in DockerResults : ExecuteReturnsWith(raw)
    /\ UNCHANGED exec_vars

\* executor.execute raises (the Docker daemon fails): not caught by the loop.
ExecutorRaised ==
    /\ UNCHANGED <<resolve_vars, run_vars, hook_vars, pure_vars>>
    /\ pc = "execute"
    /\ pc' = "done"
    /\ outcome' = "executor_error"
    /\ delivered' = LedgerOnException(attempts)
    /\ UNCHANGED <<cache, call, attempt_num, last_error, attempts, code, docker_result,
                   gen, executed, succeeded>>

\* executor.execute raises, whatever made it raise.
ExecuteRaises ==
    /\ ExecutorRaised
    /\ UNCHANGED exec_vars

(***************************************************************************)
(* Stage comparisons.  A summary maps the count keys the comparator of a   *)
(* stage reports to counts; the non-count entries (paramcd, p-values) and  *)
(* the issue texts are not kept.                                           *)
(***************************************************************************)
MaxCount == 1
Counts == 0..MaxCount

\* The keys of track_a_summary / track_b_summary per stage.
SummaryKeys(stage) ==
    IF stage = "sdtm" THEN {"dm_rows", "vs_rows", "subjects"}
    ELSE IF stage = "adam" THEN {"n_rows", "n_events", "n_censored"}
    ELSE {"n_subjects", "n_events", "n_censored"}

\* What the comparators can report: subjects are distinct USUBJID values of the
\* DM rows; events and censored rows are disjoint subsets of the ADTTE rows;
\* the stats counts are whatever results.json holds.
Summaries(stage) ==
    { s \in [SummaryKeys(stage) -> Counts] :
        IF stage = "sdtm" THEN s["subjects"] <= s["dm_rows"]
        ELSE IF stage = "adam" THEN s["n_events"] + s["n_censored"] <= s["n_rows"]
        ELSE TRUE }

EmptySummary == [k \in {} |-> 0]

StageComparison(stage, matches, a_summary, b_summary) ==
    [stage |-> stage, matches |-> matches,
     track_a_summary |-> a_summary, track_b_summary |-> b_summary]

NoDisagreement == StageComparison(None, TRUE, EmptySummary, EmptySummary)

\* Every comparison with matches = False over the bounded summaries.
Disagreements ==
    UNION { { StageComparison(st, FALSE, a, b) : a, b \in Summaries(st) } :
            st \in StageNames }

\* dict.get: the value standing for None.
NoCount == -1
SummaryGet(summary, key) == IF key \in DOMAIN summary THEN summary[key] ELSE NoCount

\* The keys _diagnose looks at, in its order.
DiagnoseKeys == <<"dm_rows", "n_rows", "subjects">>

RECURSIVE DiagnoseFrom(_, _, _)
DiagnoseFrom(i, a_summary, b_summary) ==
    IF i > Len(DiagnoseKeys) THEN "track_b"
    ELSE LET a_val == SummaryGet(a_summary, DiagnoseKeys[i])
             b_val == SummaryGet(b_summary, DiagnoseKeys[i])
         IN  IF a_val # NoCount /\ b_val # NoCount /\ a_val # b_val
             THEN IF a_val < b_val THEN "track_a" ELSE "track_b"
             ELSE DiagnoseFrom(i + 1, a_summary, b_summary)

_diagnose(disagreement) ==
    DiagnoseFrom(1, disagreement.track_a_summary, disagreement.track_b_summary)

\* The count checks of a stage whose issue text names both tracks' values, in
\* the comparator's order.
IssueKeys(stage) ==
    IF stage = "sdtm" THEN <<"dm_rows", "vs_rows">>
    ELSE IF stage = "adam" THEN <<"n_rows", "n_events", "n_censored">>
    ELSE <<"n_subjects", "n_events", "n_censored">>

\* An issue text "<metric> mismatch: Track A=<x>, Track B=<y>".
IssueText(metric, a_val, b_val) == [metric |-> metric, track_a |-> a_val, track_b |-> b_val]

\* StageComparison.issues as the comparator builds it from the two outputs; the
\* texts of the checks that are not counts are not kept.
issues(disagreement) ==
    LET keys == IssueKeys(disagreement.stage)
        a == disagreement.track_a_summary
        b == disagreement.track_b_summary
        all == [i \in DOMAIN keys |-> IssueText(keys[i], a[keys[i]], b[keys[i]])]
        Differs(t) == t.track_a # t.track_b
    IN  SelectSeq(all, Differs)

\* STAGE_SUGGESTED_CHECKS: one fixed list per stage.
STAGE_SUGGESTED_CHECKS(stage) == stage

\* ResolutionLoop._generate_hint
_generate_hint(disagreement, track) ==
    [stage |-> disagreement.stage,
     discrepancies |-> issues(disagreement),
     validation_failures |-> <<>>,
     suggested_checks |-> STAGE_SUGGESTED_CHECKS(disagreement.stage)]

\* ResolutionHint.to_prompt_text: the stage, every discrepancy, every
\* validation failure and every suggested check, each on its line.
to_prompt_text(h) ==
    <<h.stage, h.discrepancies, h.validation_failures, h.suggested_checks>>

NoHint == <<>>

HasDisagreementInFirstStage(comparisons) == ~comparisons[1].matches

\* StageComparisonResult.has_disagreement
has_disagreement(comparisons) == \E i \in DOMAIN comparisons : ~comparisons[i].matches

LastDisagreement(comparisons) ==
    IF has_disagreement(comparisons)
    THEN comparisons[CHOOSE i \in DOMAIN comparisons :
                        /\ ~comparisons[i].matches
                        /\ \A j \in (i + 1)..Len(comparisons) : comparisons[j].matches]
    ELSE NoDisagreement

\* StageComparisonResult.first_disagreement
first_disagreement(comparisons) ==
    IF has_disagreement(comparisons)
    THEN comparisons[CHOOSE i \in DOMAIN comparisons :
                        /\ ~comparisons[i].matches
                        /\ \A j \in 1..(i - 1) : comparisons[j].matches]
    ELSE NoDisagreement

PickTrackB(disagreement) == "track_b"

_pick_best_track(disagreement) == "track_a"

CascadeWholeTrack(stage) == StageOrder

\* _rerun_from_stage: stages_to_run for the stage that disagreed.
CascadeFrom(stage) ==
    IF stage = "sdtm" THEN <<"sdtm", "adam", "stats">>
    ELSE IF stage = "adam" THEN <<"adam", "stats">>
    ELSE IF stage = "stats" THEN <<"stats">>
    ELSE <<>>

\* _rerun_from_stage: is_hint_stage
is_hint_stage(run_stage, stage) == run_stage = stage

ResolutionResult(resolved, iterations, winning_track, stage) ==
    [resolved |-> resolved, iterations |-> iterations,
     winning_track |-> winning_track, stage |-> stage]

NoResolution == ResolutionResult(FALSE, -1, None, None)

\* PipelineState: the status of every step (absent from steps: "absent"), the
\* current step and the overall status.  A step is named by its stage, or
\* "simulator", "consensus", "medical_writer", and its track.
StepNames ==
    {<<"simulator", "shared">>, <<"consensus", "shared">>, <<"medical_writer", "shared">>}
        \cup {<<st, t>> : st \in StageNames, t \in Tracks}

PipelineState(steps, current_step, status) ==
    [steps |-> steps, current_step |-> current_step, status |-> status]

\* PipelineState(run_id=..., started_at=...): no steps, status "running".
NewPipelineState == PipelineState([n \in StepNames |-> "absent"], None, "running")

NoFile == [steps |-> <<>>, current_step |-> None, status |-> "no file"]
NoComparison ==
    [compared |-> FALSE, has_disagreement |-> FALSE, first_disagreement |-> NoDisagreement]
NoError == [type |-> None, step |-> None, verdict |-> None]

\* RExecutor.execute before it is called: no container, no Docker call made.
NoExec ==
    [pc |-> "off", bound |-> FALSE, created |-> FALSE, container |-> "none",
     timed_out |-> FALSE, exit_code |-> 0, stderr |-> NoStderr, calls |-> <<>>,
     logged |-> FALSE, pending |-> "none"]

InitExecOff ==
    /\ exec = NoExec
    /\ abort = "none"

NoReturn == [done |-> FALSE, value |-> <<>>]

InitPureOff ==
    /\ arg = <<>>
    /\ ret = NoReturn

InitRunOff ==
    /\ stage_comparisons_file = NoComparison
    /\ run_pc = "off"
    /\ resolution_enabled = FALSE
    /\ track_pc = [t \in Tracks |-> "idle"]
    /\ state = NewPipelineState
    /\ state_file = NoFile
    /\ recorded = {}
    /\ comparison_result = NoComparison
    /\ verdict = None
    /\ verdict_file = None
    /\ raised = NoError
    /\ writer_starts = 0

InitResolveOff ==
    /\ rpc = "off"
    /\ max_iterations = 0
    /\ iteration = 0
    /\ current_disagreement = NoDisagreement
    /\ failing_track = None
    /\ stages_to_run = <<>>
    /\ rerun_log = <<>>
    /\ reruns = 0
    /\ compare_log = <<>>
    /\ result = NoResolution
    /\ hint_text = NoHint
    /\ gate = [t \in Tracks |-> [st \in StageNames |-> "pending"]]
    /\ new_comparison_result = NoComparison

(***************************************************************************)
(* Spec: one _run_agent call, with any arguments, over a cache that an     *)
(* earlier run with the same configuration may have filled.                *)
(***************************************************************************)
FilledCaches == {[k \in Keys |-> s] : s \in Scripts}

InitialCaches == {[k \in Keys |-> NoScript]} \cup FilledCaches

\* Nothing of the pipeline has been started.
InitProgramOff ==
    /\ InitAgent
    /\ InitResolveOff
    /\ InitRunOff
    /\ InitExecOff
    /\ InitHooksOff

Init ==
    /\ InitProgramOff
    /\ InitPureOff
    /\ cache \in InitialCaches

RunAgent ==
    /\ pc = "idle"
    /\ \E a \in StageNames, t \in Tracks, h \in BOOLEAN : StartCall(a, t, h)
    /\ UNCHANGED <<resolve_vars, run_vars, exec_vars, hook_vars, pure_vars>>

Next ==
    \/ RunAgent
    \/ GenerateHit
    \/ GenerateLLM
    \/ GenerateRaises
    \/ ExecuteReturns
    \/ ExecuteRaises

Spec == Init /\ [][Next]_vars

(***************************************************************************)
(* SpecResolve: ResolutionLoop.resolve after a first run of both tracks    *)
(* ended in a disagreement.  The first run left a script under every       *)
(* (agent, track) key: each of its _run_agent calls either hit the cache   *)
(* or stored its first generated script.                                   *)
(***************************************************************************)
MaxIter == 2

\* The summaries the comparisons of a resolution are drawn from: a track with
\* MaxCount subjects, all with an event, and a track that dropped one of them.
Complete(stage) ==
    [k \in SummaryKeys(stage) |-> IF k = "n_censored" THEN 0 ELSE MaxCount]
Short(stage) ==
    [k \in SummaryKeys(stage) |->
        IF k \in {"n_censored", "vs_rows"} THEN Complete(stage)[k] ELSE MaxCount - 1]

\* StageComparator.compare_<stage>: agreement, one track short, or an issue
\* that is not a count (matches is False with equal counts).
SampleComparisons(stage) ==
    { StageComparison(stage, TRUE, Complete(stage), Complete(stage)),
      StageComparison(stage, FALSE, Complete(stage), Complete(stage)),
      StageComparison(stage, FALSE, Short(stage), Complete(stage)),
      StageComparison(stage, FALSE, Complete(stage), Short(stage)) }

SampleDisagreements ==
    UNION { {c \in SampleComparisons(st) : ~c.matches} : st \in StageNames }

StageIndex(stage) == CHOOSE i \in DOMAIN StageOrder : StageOrder[i] = stage

\* StageComparator.compare_all_stages after a rerun from `stage`: the stages
\* before it were not re-run and agreed before (it was the first disagreement).
CompareAllStages(stage) ==
    LET Outcomes(i) ==
            { c \in SampleComparisons(StageOrder[i]) :
                i < StageIndex(stage) => c.matches }
    IN  { <<sdtm, adam, stats>> :
            sdtm \in Outcomes(1), adam \in Outcomes(2), stats \in Outcomes(3) }

InitResolve ==
    /\ InitAgent
    /\ cache \in {c \in FilledCaches : \A k \in Keys : c[k].body = "script_1"}
    /\ rpc = "iterate"
    /\ max_iterations \in 0..MaxIter
    /\ iteration = 1
    /\ current_disagreement \in SampleDisagreements
    /\ failing_track = None
    /\ stages_to_run = <<>>
    /\ rerun_log = <<>>
    /\ reruns = 0
    /\ compare_log = <<>>
    /\ result = NoResolution
    /\ hint_text = NoHint
    /\ gate = [t \in Tracks |-> [st \in StageNames |-> "validated"]]
    /\ new_comparison_result = NoComparison
    /\ InitRunOff
    /\ InitExecOff
    /\ InitHooksOff
    /\ InitPureOff

\* One round of the loop over stages_to_run: the context gets the hint as
\* previous_error for the hint stage only, then _run_agent is called.
RunStage(track_id, stage, remaining, log, gates) ==
    LET run_stage == Head(remaining)
        with_hint == is_hint_stage(run_stage, stage)
    IN  /\ StartCall(run_stage, track_id, with_hint)
        /\ gate' = [gates EXCEPT ![track_id][run_stage] = "running"]
        /\ stages_to_run' = Tail(remaining)
        /\ rerun_log' = Append(log, [stage |-> run_stage, track_id |-> track_id,
                                     hint |-> with_hint])

\* The head of the resolve loop: _diagnose, _generate_hint and the start of
\* _rerun_from_stage for the diagnosed track.
ResolveIterate ==
    /\ UNCHANGED <<run_vars, exec_vars, hook_vars, pure_vars>>
    /\ rpc = "iterate"
    /\ iteration <= max_iterations
    /\ failing_track' = _diagnose(current_disagreement)
    /\ RunStage(failing_track', current_disagreement.stage,
                CascadeFrom(current_disagreement.stage), <<>>, gate)
    /\ hint_text' = to_prompt_text(_generate_hint(current_disagreement, failing_track'))
    /\ rpc' = "rerun"
    /\ UNCHANGED <<max_iterations, iteration, current_disagreement, reruns,
                   compare_log, result,
                   new_comparison_result>>

\* _run_agent returned and the stage's SchemaValidator check passed: the next
\* stage of the cascade starts.
StageValidated ==
    /\ UNCHANGED <<run_vars, exec_vars, hook_vars, pure_vars>>
    /\ rpc = "rerun" /\ pc = "done" /\ outcome = "returned"
    /\ stages_to_run # <<>>
    /\ RunStage(failing_track, current_disagreement.stage, stages_to_run, rerun_log,
                [gate EXCEPT ![call.track_id][call.agent] = "validated"])
    /\ UNCHANGED <<rpc, max_iterations, iteration, current_disagreement, failing_track,
                   reruns, compare_log, result, hint_text,
                   new_comparison_result>>

\* The last stage of the cascade returned and was validated: _rerun_from_stage
\* returns.
RerunReturns ==
    /\ UNCHANGED <<run_vars, exec_vars, hook_vars, pure_vars>>
    /\ rpc = "rerun" /\ pc = "done" /\ outcome = "returned"
    /\ stages_to_run = <<>>
    /\ rpc' = "compare"
    /\ reruns' = reruns + 1
    /\ gate' = [gate EXCEPT ![call.track_id][call.agent] = "validated"]
    /\ EndCall
    /\ UNCHANGED <<max_iterations, iteration, current_disagreement,
                   failing_track, stages_to_run, rerun_log, compare_log, result, hint_text,
                   new_comparison_result>>

\* _run_agent returned but SchemaValidator raised SchemaValidationError.
StageInvalid ==
    /\ UNCHANGED <<run_vars, exec_vars, hook_vars, pure_vars>>
    /\ rpc = "rerun" /\ pc = "done" /\ outcome = "returned"
    /\ rpc' = "raised"
    /\ gate' = [gate EXCEPT ![call.track_id][call.agent] = "invalid"]
    /\ EndCall
    /\ UNCHANGED <<max_iterations, iteration, current_disagreement,
                   failing_track, stages_to_run, rerun_log, reruns, compare_log, result, hint_text,
                   new_comparison_result>>

\* _run_agent raised: the exception leaves _rerun_from_stage and resolve.
StageRaises ==
    /\ UNCHANGED <<run_vars, exec_vars, hook_vars, pure_vars>>
    /\ rpc = "rerun" /\ pc = "done" /\ outcome # "returned"
    /\ rpc' = "raised"
    /\ gate' = [gate EXCEPT ![call.track_id][call.agent] = "failed"]
    /\ EndCall
    /\ UNCHANGED <<max_iterations, iteration, current_disagreement,
                   failing_track, stages_to_run, rerun_log, reruns, compare_log, result, hint_text,
                   new_comparison_result>>

\* StageComparisonResult(comparisons=...): the comparisons with the two
\* derived properties has_disagreement and first_disagreement.
StageComparisonResult(comparisons) ==
    [compared |-> TRUE, has_disagreement |-> has_disagreement(comparisons),
     first_disagreement |-> first_disagreement(comparisons)]

KeepDisagreement(current, comparisons) == current

\* Still disagreeing -- update for next iteration:
\* current_disagreement = new_comparison_result.first_disagreement
NextDisagreement(current, comparisons) == first_disagreement(comparisons)

\* compare_all_stages after the rerun: return resolved, or go round again with
\* the first disagreement.
CompareWith(comparisons) ==
    /\ UNCHANGED <<run_vars, exec_vars, hook_vars>>
    /\ rpc = "compare"
    /\
        /\ compare_log' = Append(compare_log, \E i \in DOMAIN comparisons :
                                                  ~comparisons[i].matches)
        /\ IF ~has_disagreement(comparisons)
           THEN /\ result' = ResolutionResult(TRUE, iteration, None,
                                              current_disagreement.stage)
                /\ rpc' = "returned"
                /\ UNCHANGED <<iteration, current_disagreement>>
           ELSE /\ current_disagreement' = NextDisagreement(current_disagreement, comparisons)
                /\ iteration' = iteration + 1
                /\ rpc' = "iterate"
                /\ UNCHANGED result
        /\ new_comparison_result' = StageComparisonResult(comparisons)
    /\ UNCHANGED <<agent_vars, max_iterations, failing_track, stages_to_run, rerun_log,
                   reruns, hint_text, gate>>

\* The comparison after a re-run from the stage that disagreed.
Compare ==
    /\ rpc = "compare"
    /\ \E comparisons \in CompareAllStages(current_disagreement.stage) :
            CompareWith(comparisons)
    /\ UNCHANGED pure_vars

\* The loop has made max_iterations rounds: _pick_best_track and the
\* unresolved result.
ResolveExhausted ==
    /\ UNCHANGED <<run_vars, exec_vars, hook_vars, pure_vars>>
    /\ rpc = "iterate"
    /\ iteration > max_iterations
    /\ result' = ResolutionResult(FALSE, max_iterations,
                                  _pick_best_track(current_disagreement),
                                  current_disagreement.stage)
    /\ rpc' = "returned"
    /\ UNCHANGED <<agent_vars, exec_vars, hook_vars, pure_vars, max_iterations, iteration, current_disagreement,
                   failing_track, stages_to_run, rerun_log, reruns, compare_log, hint_text, gate,
                   new_comparison_result>>

NextResolve ==
    \/ ResolveIterate
    \/ GenerateHit
    \/ GenerateLLM
    \/ GenerateRaises
    \/ ExecuteReturns
    \/ ExecuteRaises
    \/ StageValidated
    \/ RerunReturns
    \/ StageInvalid
    \/ StageRaises
    \/ Compare
    \/ ResolveExhausted

SpecResolve == InitResolve /\ [][NextResolve]_vars

(***************************************************************************)
(* SpecDiagnose: _diagnose applied to every bounded disagreement.          *)
(***************************************************************************)
InitDiagnose ==
    /\ InitAgent
    /\ cache = [k \in Keys |-> NoScript]
    /\ rpc = "iterate"
    /\ max_iterations = 0
    /\ iteration = 0
    /\ current_disagreement \in Disagreements
    /\ failing_track = None
    /\ stages_to_run = <<>>
    /\ rerun_log = <<>>
    /\ reruns = 0
    /\ compare_log = <<>>
    /\ result = NoResolution
    /\ hint_text = NoHint
    /\ gate = [t \in Tracks |-> [st \in StageNames |-> "validated"]]
    /\ new_comparison_result = NoComparison
    /\ InitRunOff
    /\ InitExecOff
    /\ InitHooksOff
    /\ InitPureOff

Diagnose ==
    /\ UNCHANGED <<run_vars, exec_vars, hook_vars, pure_vars>>
    /\ rpc = "iterate"
    /\ failing_track' = _diagnose(current_disagreement)
    /\ hint_text' = to_prompt_text(_generate_hint(current_disagreement, failing_track'))
    /\ rpc' = "diagnosed"
    /\ UNCHANGED <<agent_vars, exec_vars, hook_vars, pure_vars, max_iterations, iteration, current_disagreement,
                   stages_to_run, rerun_log, reruns, compare_log, result, gate,
                   new_comparison_result>>

NextDiagnose == Diagnose

SpecDiagnose == InitDiagnose /\ [][NextDiagnose]_vars

(***************************************************************************)
(* PipelineOrchestrator.run: the simulator, the two tracks running         *)
(* concurrently on one event loop, the first comparison, the resolution     *)
(* loop, the verdict and the medical writer.  The _run_agent calls of the   *)
(* simulator, the tracks and the writer are taken by their outcome; the     *)
(* calls of the resolution reruns are the retry loop above.                 *)
(***************************************************************************)
StepName(stage, track_id) == <<stage, track_id>>

TrackSteps == {StepName(st, t) : st \in StageNames, t \in Tracks}

RecordStepAlone(st, name) ==
    [NewPipelineState EXCEPT !.steps[name] = "completed", !.current_step = name]

\* _record_step: state.steps[name] = StepState(...) with the default status
\* COMPLETED, state.current_step = name; the caller's state object is updated
\* in place and then saved whole.
_record_step(st, name) ==
    [st EXCEPT !.steps[name] = "completed", !.current_step = name]

NotFailed(st) == st

\* state.status = "failed"
Failed(st) == [st EXCEPT !.status = "failed"]

\* state.status = "completed"
Completed(st) == [st EXCEPT !.status = "completed"]

SaveVerdictSkipped(file, v) == file

\* verdict_path.write_text(verdict.model_dump_json(indent=2))
SaveVerdict(file, v) == v

\* (consensus_dir / "stage_comparisons.json").write_text(
\*     stage_comparison.model_dump_json(indent=2)): the file holds the
\* comparison result that was written last.
SaveStageComparisons(file, cr) == cr

AlwaysPass(cr, rr) == "PASS"

\* The verdict built for the medical writer; rr is resolution_result, with
\* NoResolution standing for None.
overall_verdict(cr, rr) ==
    IF cr.has_disagreement /\ rr # NoResolution /\ rr.winning_track # None
    THEN "WARNING"
    ELSE "PASS"

JoinedAny(tp) == \E t \in Tracks : tp[t] = "done"

\* await asyncio.gather(track_a, track_b) returns: both coroutines returned.
Joined(tp) == \A t \in Tracks : tp[t] = "done"

NextStage(stage) ==
    IF stage = "sdtm" THEN "adam" ELSE IF stage = "adam" THEN "stats" ELSE "done"

IgnoreValidation(stage, valid) == NextStage(stage)

\* SchemaValidator.validate_<stage> after the step was recorded: it returns
\* and _run_track goes on, or it raises SchemaValidationError.
AfterValidate(stage, valid) == IF valid THEN NextStage(stage) ELSE "raised"

Error(type, step) == [type |-> type, step |-> step, verdict |-> None]

\* ConsensusHaltError(ConsensusVerdict(verdict=Verdict.HALT, ...))
ConsensusHaltError(v) == [type |-> "ConsensusHaltError", step |-> None, verdict |-> v]

\* The exceptions _run_agent lets through from the retry loop.
AgentErrors == {"NonRetriableError", "MaxRetriesExceededError"}

\* settings.resolution.max_iterations is drawn from 0..MaxRunIter.
MaxRunIter == 1

\* run up to the first await: state created and saved with no steps, the
\* simulator's _run_agent awaited.
InitRunUpTo(n) ==
    /\ InitAgent
    /\ cache = [k \in Keys |-> [body |-> "script_1", eol |-> "lf"]]
    /\ rpc = "off"
    /\ max_iterations \in 0..n
    /\ iteration = 0
    /\ current_disagreement = NoDisagreement
    /\ failing_track = None
    /\ stages_to_run = <<>>
    /\ rerun_log = <<>>
    /\ reruns = 0
    /\ compare_log = <<>>
    /\ result = NoResolution
    /\ hint_text = NoHint
    /\ gate = [t \in Tracks |-> [st \in StageNames |-> "pending"]]
    /\ new_comparison_result = NoComparison
    /\ InitExecOff
    /\ InitPureOff
    /\ stage_comparisons_file = NoComparison
    /\ run_pc = "simulator"
    /\ resolution_enabled \in BOOLEAN
    /\ track_pc = [t \in Tracks |-> "idle"]
    /\ state = NewPipelineState
    /\ state_file = NewPipelineState
    /\ recorded = {}
    /\ comparison_result = NoComparison
    /\ verdict = None
    /\ verdict_file = None
    /\ raised = NoError
    /\ writer_starts = 0

InitRun ==
    /\ InitRunUpTo(MaxRunIter)
    /\ InitHooksOff

\* The simulator's _run_agent returned: the step is recorded and its output
\* validated; then gather schedules the two tracks.
SimulatorReturns ==
    /\ run_pc = "simulator"
    /\ \E cb \in AgentHooks(callback, "simulator") :
        callback' = on_step_complete(cb, HookName("simulator", "shared"))
    /\ state' = _record_step(state, StepName("simulator", "shared"))
    /\ state_file' = state'
    /\ recorded' = recorded \cup {StepName("simulator", "shared")}
    /\ \E valid \in BOOLEAN :
        IF valid
        THEN /\ run_pc' = "tracks"
             /\ UNCHANGED raised
        ELSE /\ run_pc' = "raised"
             /\ raised' = Error("SimulatorOutputError", StepName("simulator", "shared"))
    /\ UNCHANGED <<agent_vars, exec_vars, pure_vars, resolve_vars, resolution_enabled, track_pc,
                   comparison_result, verdict, verdict_file, writer_starts,
                   stage_comparisons_file>>

\* The simulator's _run_agent raised.
SimulatorRaises ==
    /\ run_pc = "simulator"
    /\ \E cb \in AgentHooks(callback, "simulator") :
        callback' = on_step_fail(cb, "simulator")
    /\ run_pc' = "raised"
    /\ \E e \in AgentErrors : raised' = Error(e, StepName("simulator", "shared"))
    /\ UNCHANGED <<agent_vars, exec_vars, pure_vars, resolve_vars, resolution_enabled, track_pc, state,
                   state_file, recorded, comparison_result, verdict, verdict_file,
                   writer_starts,
                   stage_comparisons_file>>

\* _run_track up to its first await: the SDTM agent is started.
TrackStart(t) ==
    /\ run_pc = "tracks"
    /\ track_pc[t] = "idle"
    /\ callback' = on_step_start(callback, HookName("sdtm", t))
    /\ track_pc' = [track_pc EXCEPT ![t] = "sdtm"]
    /\ gate' = [gate EXCEPT ![t]["sdtm"] = "running"]
    /\ UNCHANGED <<agent_vars, exec_vars, pure_vars, new_comparison_result, rpc, max_iterations, iteration, current_disagreement,
                   failing_track, stages_to_run, rerun_log, reruns, compare_log, result,
                   hint_text, run_pc, resolution_enabled, state, state_file, recorded,
                   comparison_result, verdict, verdict_file, raised, writer_starts,
                   stage_comparisons_file>>

\* A stage's _run_agent returned in track t: _record_step, the schema
\* validation, and on success the start of the next stage's agent (or the
\* return of the TrackResult).  Nothing is awaited in between.
StageReturnsInTrack(t) ==
    /\ track_pc[t] \in StageNames
    /\ LET stage == track_pc[t]
       IN \E valid \in BOOLEAN :
            LET next == AfterValidate(stage, valid)
                checked == [gate EXCEPT ![t][stage] =
                                IF valid THEN "validated" ELSE "invalid"]
            IN  /\ state' = _record_step(state, StepName(stage, t))
                /\ state_file' = state'
                /\ recorded' = recorded \cup {StepName(stage, t)}
                /\ track_pc' = [track_pc EXCEPT ![t] = next]
                /\ gate' = IF next \in StageNames
                           THEN [checked EXCEPT ![t][next] = "running"]
                           ELSE checked
                /\ raised' = IF next = "raised" /\ raised = NoError
                             THEN Error("SchemaValidationError", StepName(stage, t))
                             ELSE raised
                /\ \E cb \in AgentHooks(callback, stage) :
                    LET completed == on_step_complete(cb, HookName(stage, t))
                    IN  callback' = IF next \in StageNames
                                    THEN on_step_start(completed, HookName(next, t))
                                    ELSE completed
    /\ UNCHANGED <<agent_vars, exec_vars, pure_vars, new_comparison_result, rpc, max_iterations, iteration, current_disagreement,
                   failing_track, stages_to_run, rerun_log, reruns, compare_log, result,
                   hint_text, run_pc, resolution_enabled, comparison_result, verdict,
                   verdict_file, writer_starts,
                   stage_comparisons_file>>

\* run awaits gather while the stage's _run_agent returns.
TrackStageReturns(t) ==
    /\ run_pc = "tracks"
    /\ StageReturnsInTrack(t)

\* A stage's _run_agent raised in track t: the exception leaves _run_track;
\* gather hands the first exception to run.
TrackAgentRaises(t) ==
    /\ run_pc = "tracks"
    /\ track_pc[t] \in StageNames
    /\ \E cb \in AgentHooks(callback, track_pc[t]) :
        callback' = on_step_fail(cb, track_pc[t])
    /\ track_pc' = [track_pc EXCEPT ![t] = "raised"]
    /\ gate' = [gate EXCEPT ![t][track_pc[t]] = "failed"]
    /\ \E e \in AgentErrors :
        raised' = IF raised = NoError THEN Error(e, StepName(track_pc[t], t)) ELSE raised
    /\ UNCHANGED <<agent_vars, exec_vars, pure_vars, new_comparison_result, rpc, max_iterations, iteration, current_disagreement,
                   failing_track, stages_to_run, rerun_log, reruns, compare_log, result,
                   hint_text, run_pc, resolution_enabled, state, state_file, recorded,
                   comparison_result, verdict, verdict_file, writer_starts,
                   stage_comparisons_file>>

\* run is resumed with the exception of the track that failed first; the
\* other track is not awaited any more.
GatherRaises ==
    /\ run_pc = "tracks"
    /\ \E t \in Tracks : track_pc[t] = "raised"
    /\ run_pc' = "raised"
    /\ UNCHANGED <<agent_vars, exec_vars, hook_vars, pure_vars, resolve_vars, resolution_enabled, track_pc, state,
                   state_file, recorded, comparison_result, verdict, verdict_file, raised,
                   writer_starts,
                   stage_comparisons_file>>

\* Both tracks returned: compare_all_stages finds no disagreement.
CompareAgreesWith(comparisons) ==
    /\ run_pc = "tracks"
    /\ Joined(track_pc)
    /\ callback' = on_step_complete(
                        on_step_start(callback, HookName("stage_comparison", "shared")),
                        HookName("stage_comparison", "shared"))
    /\ comparison_result' = StageComparisonResult(comparisons)
    /\ stage_comparisons_file' = SaveStageComparisons(stage_comparisons_file, comparison_result')
    /\ ~comparison_result'.has_disagreement
    /\ run_pc' = "verdict"
    /\ UNCHANGED <<agent_vars, exec_vars, resolve_vars, resolution_enabled, track_pc, state,
                   state_file, recorded, verdict, verdict_file, raised, writer_starts>>

\* Both tracks returned, the comparison finds a disagreement and resolution
\* is enabled: ResolutionLoop.resolve is awaited with the first disagreement.
CompareStartsResolutionWith(comparisons) ==
    /\ run_pc = "tracks"
    /\ Joined(track_pc)
    /\ callback' = on_step_complete(
                        on_step_start(callback, HookName("stage_comparison", "shared")),
                        HookName("stage_comparison", "shared"))
    /\ resolution_enabled
    /\ comparison_result' = StageComparisonResult(comparisons)
    /\ stage_comparisons_file' = SaveStageComparisons(stage_comparisons_file, comparison_result')
    /\ comparison_result'.has_disagreement
    /\ current_disagreement' = comparison_result'.first_disagreement
    /\ iteration' = 1
    /\ rpc' = "iterate"
    /\ run_pc' = "resolving"
    /\ UNCHANGED <<agent_vars, exec_vars, max_iterations, failing_track, stages_to_run, rerun_log,
                   reruns, compare_log, result, hint_text, gate, resolution_enabled,
                   track_pc, state, state_file, recorded, verdict, verdict_file, raised,
                   writer_starts,
                   new_comparison_result>>

\* Both tracks returned, the comparison finds a disagreement and resolution
\* is disabled: the status is set to "failed", saved, and the halt is raised.
CompareHaltsWith(comparisons) ==
    /\ run_pc = "tracks"
    /\ Joined(track_pc)
    /\ callback' = on_step_complete(
                        on_step_start(callback, HookName("stage_comparison", "shared")),
                        HookName("stage_comparison", "shared"))
    /\ ~resolution_enabled
    /\ comparison_result' = StageComparisonResult(comparisons)
    /\ stage_comparisons_file' = SaveStageComparisons(stage_comparisons_file, comparison_result')
    /\ comparison_result'.has_disagreement
    /\ state' = Failed(state)
    /\ state_file' = state'
    /\ verdict' = "HALT"
    /\ raised' = ConsensusHaltError(verdict')
    /\ run_pc' = "raised"
    /\ UNCHANGED <<agent_vars, exec_vars, resolve_vars, resolution_enabled, track_pc, recorded,
                   verdict_file, writer_starts>>

\* The comparison of the two TrackResults as they stand after the join.
CompareAgrees ==
    /\ \E comparisons \in CompareAllStages("sdtm") : CompareAgreesWith(comparisons)
    /\ UNCHANGED pure_vars

CompareStartsResolution ==
    /\ \E comparisons \in CompareAllStages("sdtm") :
            CompareStartsResolutionWith(comparisons)
    /\ UNCHANGED pure_vars

CompareHalts ==
    /\ \E comparisons \in CompareAllStages("sdtm") : CompareHaltsWith(comparisons)
    /\ UNCHANGED pure_vars

\* resolve returned: unresolved without a winning track halts; otherwise run
\* goes on to the verdict.
ResolutionReturns ==
    /\ run_pc = "resolving"
    /\ rpc = "returned"
    /\ IF ~result.resolved /\ result.winning_track = None
       THEN /\ state' = Failed(state)
            /\ state_file' = state'
            /\ verdict' = "HALT"
            /\ raised' = ConsensusHaltError(verdict')
            /\ run_pc' = "raised"
       ELSE /\ run_pc' = "verdict"
            /\ UNCHANGED <<state, state_file, verdict, raised>>
    /\ UNCHANGED <<agent_vars, exec_vars, hook_vars, pure_vars, resolve_vars, resolution_enabled, track_pc, recorded,
                   comparison_result, verdict_file, writer_starts,
                   stage_comparisons_file>>

\* An exception left resolve (a rerun's agent or validation failed).
ResolutionRaises ==
    /\ run_pc = "resolving"
    /\ rpc = "raised"
    /\ run_pc' = "raised"
    /\ \E t \in Tracks, st \in StageNames :
        /\ gate[t][st] \in {"invalid", "failed"}
        /\ raised' = Error(IF gate[t][st] = "invalid" THEN "SchemaValidationError"
                           ELSE "RerunError", StepName(st, t))
    /\ UNCHANGED <<agent_vars, exec_vars, hook_vars, pure_vars, resolve_vars, resolution_enabled, track_pc, state,
                   state_file, recorded, comparison_result, verdict, verdict_file,
                   writer_starts,
                   stage_comparisons_file>>

\* The verdict is built and written to verdict.json, the consensus step is
\* put into the state and saved; a HALT verdict would fail the run here.
BuildVerdict ==
    /\ run_pc = "verdict"
    /\ verdict' = overall_verdict(comparison_result,
                                  IF rpc = "returned" THEN result ELSE NoResolution)
    /\ verdict_file' = SaveVerdict(verdict_file, verdict')
    /\ LET with_consensus == _record_step(state, StepName("consensus", "shared"))
       IN IF verdict' = "HALT"
          THEN /\ state' = Failed(with_consensus)
               /\ raised' = ConsensusHaltError(verdict')
               /\ run_pc' = "raised"
          ELSE /\ state' = with_consensus
               /\ run_pc' = "report"
               /\ UNCHANGED raised
    /\ state_file' = state'
    /\ UNCHANGED <<agent_vars, exec_vars, hook_vars, pure_vars, resolve_vars, resolution_enabled, track_pc, recorded,
                   comparison_result, writer_starts,
                   stage_comparisons_file>>

\* The medical writer step is started: on_step_start and its _run_agent.
StartWriter ==
    /\ run_pc = "report"
    /\ callback' = on_step_start(callback, HookName("medical_writer", "shared"))
    /\ writer_starts' = writer_starts + 1
    /\ run_pc' = "writer"
    /\ UNCHANGED <<agent_vars, exec_vars, pure_vars, resolve_vars, resolution_enabled, track_pc, state,
                   state_file, recorded, comparison_result, verdict, verdict_file, raised,
                   stage_comparisons_file>>

\* The writer's _run_agent returned: the step is recorded, the status set to
\* "completed" and saved.
WriterReturns ==
    /\ run_pc = "writer"
    /\ \E cb \in AgentHooks(callback, "medical_writer") :
        callback' = on_pipeline_complete(
                        on_step_complete(cb, HookName("medical_writer", "shared")))
    /\ state' = Completed(_record_step(state, StepName("medical_writer", "shared")))
    /\ state_file' = state'
    /\ recorded' = recorded \cup {StepName("medical_writer", "shared")}
    /\ run_pc' = "completed"
    /\ UNCHANGED <<agent_vars, exec_vars, pure_vars, resolve_vars, resolution_enabled, track_pc,
                   comparison_result, verdict, verdict_file, raised, writer_starts,
                   stage_comparisons_file>>

\* The writer's _run_agent raised.
WriterRaises ==
    /\ run_pc = "writer"
    /\ \E cb \in AgentHooks(callback, "medical_writer") :
        callback' = on_step_fail(cb, "medical_writer")
    /\ run_pc' = "raised"
    /\ \E e \in AgentErrors : raised' = Error(e, StepName("medical_writer", "shared"))
    /\ UNCHANGED <<agent_vars, exec_vars, pure_vars, resolve_vars, resolution_enabled, track_pc, state,
                   state_file, recorded, comparison_result, verdict, verdict_file,
                   writer_starts,
                   stage_comparisons_file>>

NextRun ==
    \/ SimulatorReturns
    \/ SimulatorRaises
    \/ \E t \in Tracks : TrackStart(t)
    \/ \E t \in Tracks : TrackStageReturns(t)
    \/ \E t \in Tracks : TrackAgentRaises(t)
    \/ GatherRaises
    \/ CompareAgrees
    \/ CompareStartsResolution
    \/ CompareHalts
    \/ ResolveIterate
    \/ GenerateHit
    \/ GenerateLLM
    \/ GenerateRaises
    \/ ExecuteReturns
    \/ ExecuteRaises
    \/ StageValidated
    \/ RerunReturns
    \/ StageInvalid
    \/ StageRaises
    \/ Compare
    \/ ResolveExhausted
    \/ ResolutionReturns
    \/ ResolutionRaises
    \/ BuildVerdict
    \/ StartWriter
    \/ WriterReturns
    \/ WriterRaises

SpecRun == InitRun /\ [][NextRun]_vars

(***************************************************************************)
(* Claims about the retry loop and the script cache, checked under Spec.   *)
(***************************************************************************)
Ended == pc = "done"
EndedByLoop == outcome \in {"returned", "NonRetriableError", "MaxRetriesExceededError"}
Numbered(ledger) == \A i \in DOMAIN ledger : ledger[i].attempt_number = i
EveryExecutionRetriable ==
    \A i \in DOMAIN attempts : is_retriable(attempts[i].error_class)

\* C1: a call in which every round was generated and executed and every
\* execution failed with a retriable classification makes exactly max_attempts
\* rounds and raises MaxRetriesExceededError with a ledger of exactly
\* max_attempts entries numbered 1..max_attempts; while fewer rounds were made
\* such a call has not ended.
C1_RetryBound ==
    /\ Len(attempts) <= max_attempts
    /\ (Ended /\ EndedByLoop /\ EveryExecutionRetriable) =>
            /\ outcome = "MaxRetriesExceededError"
            /\ Len(executed) = max_attempts
            /\ gen.attempt = max_attempts
            /\ Len(delivered) = max_attempts
            /\ Numbered(delivered)
    /\ outcome = "MaxRetriesExceededError" =>
            /\ EveryExecutionRetriable
            /\ Len(delivered) = max_attempts

C1_Witness ==
    /\ outcome = "MaxRetriesExceededError"
    /\ Len(delivered) = max_attempts
    /\ delivered[1].error_class = CODE_BUG
    /\ delivered[2].error_class = TIMEOUT
    /\ delivered[3].error_class = UNKNOWN

NonRetriableClasses == {ENVIRONMENT_ERROR, STATISTICAL_ERROR}

\* C2: an attempt classified ENVIRONMENT_ERROR or STATISTICAL_ERROR is the last
\* one: NonRetriableError is raised with the ledger up to it and no further
\* generate or execute call is made; NonRetriableError is raised for these two
\* classifications only, and after a failure with any other classification the
\* loop does not end before max_attempts rounds.
C2_NonRetriableShortCircuit ==
    /\ \A i \in DOMAIN attempts :
          attempts[i].error_class \in NonRetriableClasses =>
            /\ i = Len(attempts)
            /\ Ended
            /\ outcome = "NonRetriableError"
            /\ delivered = attempts
            /\ gen.attempt = i
            /\ Len(executed) = i
    /\ outcome = "NonRetriableError" =>
          /\ attempts # <<>>
          /\ attempts[Len(attempts)].error_class \in NonRetriableClasses
    /\ (Ended /\ EndedByLoop /\ attempts # <<>>
          /\ is_retriable(attempts[Len(attempts)].error_class)) =>
            Len(attempts) = max_attempts

C2_Witness ==
    /\ outcome = "NonRetriableError"
    /\ Len(delivered) = 1
    /\ delivered[1].error_class = ENVIRONMENT_ERROR
    /\ Len(executed) = 1

\* C3: however the call ends, every sandbox execution completed in it has
\* exactly one ledger entry that reaches the caller.
C3_EveryExecutionDelivered ==
    Ended =>
        /\ Len(delivered) = Len(executed)
        /\ \A i \in DOMAIN executed : delivered[i].attempt_number = executed[i]

\* C5: a script is written to the cache only after a sandbox execution of that
\* exact text has succeeded.
C5_CacheWriteOnlyAfterSuccess ==
    [][cache' # cache => cache'[CallKey] \in succeeded]_vars

\* C6: the cache is read only on attempt 1 with no previous error; a hit makes
\* no generation call and the script executed is exactly the text stored under
\* the key; attempts 2 and later never read the cache.
C6_CacheReadFirstAttemptVerbatim ==
    pc = "execute" =>
        /\ gen.cache_read => (gen.attempt = 1 /\ last_error = NoStderr)
        /\ gen.hit => (~gen.llm_called /\ code = cache[CallKey])
        /\ gen.attempt >= 2 => ~gen.cache_read

(***************************************************************************)
(* Claims about the resolution loop, checked under SpecResolve.            *)
(***************************************************************************)
InHintedRerun ==
    /\ rpc = "rerun"
    /\ call.agent = current_disagreement.stage
    /\ call.track_id = failing_track

\* C4: in every resolution iteration the script that attempt 1 executes for the
\* disagreeing stage of the failing track was generated, and generated from a
\* prompt whose previous-error context is the hint; a script produced without
\* the hint is not what is executed.
C4_HintReachesGeneration ==
    (InHintedRerun /\ pc = "execute" /\ attempt_num = 1) =>
        /\ call.hint
        /\ gen.llm_called
        /\ gen.prompt = "hint"

AllDisagree(log) == \A j \in DOMAIN log : log[j]

\* C7: resolve returns resolved = true with iterations = i exactly when i is
\* the first iteration whose comparison after the rerun reports no
\* disagreement: the comparisons before it all disagreed, i reruns and i
\* comparisons were made and none is made after the return.
C7_ResolvedAtFirstAgreement ==
    /\ (rpc = "returned" /\ result.resolved) =>
          /\ result.iterations = Len(compare_log)
          /\ result.iterations >= 1
          /\ ~compare_log[Len(compare_log)]
          /\ \A j \in 1..(Len(compare_log) - 1) : compare_log[j]
          /\ reruns = result.iterations
          /\ pc = "idle"
    /\ \A i \in DOMAIN compare_log :
          ~compare_log[i] =>
              /\ i = Len(compare_log)
              /\ rpc = "returned"
              /\ result = ResolutionResult(TRUE, i, None, current_disagreement.stage)

C7_Witness ==
    /\ rpc = "returned"
    /\ result.resolved
    /\ result.iterations = 2
    /\ compare_log = <<TRUE, FALSE>>

Downstream(stage) ==
    SubSeq(StageOrder, StageIndex(stage), Len(StageOrder))

ExpectedReruns(stage, track_id) ==
    [i \in DOMAIN Downstream(stage) |->
        [stage |-> Downstream(stage)[i], track_id |-> track_id, hint |-> (i = 1)]]

IsPrefix(s, t) == Len(s) <= Len(t) /\ \A i \in DOMAIN s : s[i] = t[i]

\* C9: a rerun from stage s runs, for the failing track, stage s and then every
\* downstream stage in the order sdtm, adam, stats (3, 2 or 1 stages), each
\* once; only the call of stage s is given the hint.
C9_RerunCascade ==
    (rpc \in {"rerun", "compare"}) =>
        LET expected == ExpectedReruns(current_disagreement.stage, failing_track)
        IN  /\ IsPrefix(rerun_log, expected)
            /\ Len(rerun_log) + Len(stages_to_run) = Len(expected)
            /\ rpc = "compare" => rerun_log = expected
            /\ Len(expected) = 4 - StageIndex(current_disagreement.stage)
            /\ pc # "idle" =>
                  /\ call.agent = rerun_log[Len(rerun_log)].stage
                  /\ call.track_id = failing_track
                  /\ call.hint = (Len(rerun_log) = 1)

C9_Witness ==
    /\ rpc = "compare"
    /\ current_disagreement.stage = "adam"
    /\ rerun_log = << [stage |-> "adam", track_id |-> failing_track, hint |-> TRUE],
                      [stage |-> "stats", track_id |-> failing_track, hint |-> FALSE] >>

(***************************************************************************)
(* Claims about _diagnose, checked under SpecDiagnose.                     *)
(***************************************************************************)
\* The row, subject and event counts of a stage's summaries.
CountKeys(stage) ==
    IF stage = "sdtm" THEN {"dm_rows", "vs_rows", "subjects"}
    ELSE IF stage = "adam" THEN {"n_rows", "n_events"}
    ELSE {"n_subjects", "n_events"}

SmallerCount(stage, x, y) == \E k \in CountKeys(stage) : x[k] < y[k]
SameCounts(stage, x, y) == \A k \in CountKeys(stage) : x[k] = y[k]

\* C10: _diagnose names as failing the track whose count (row, subject or
\* event count) is smaller than the other track's, and names track_b otherwise
\* only when no count differs.
C10_DiagnoseSmallerCount ==
    rpc = "diagnosed" =>
        LET st == current_disagreement.stage
            a == current_disagreement.track_a_summary
            b == current_disagreement.track_b_summary
        IN  /\ (SmallerCount(st, a, b) /\ ~SmallerCount(st, b, a)) =>
                  failing_track = "track_a"
            /\ (SmallerCount(st, b, a) /\ ~SmallerCount(st, a, b)) =>
                  failing_track = "track_b"
            /\ failing_track = "track_b" =>
                  (SmallerCount(st, b, a) \/ SameCounts(st, a, b))

(***************************************************************************)
(* Claims about the ledger and the error feedback, checked under Spec.     *)
(***************************************************************************)
\* C19: every entry is appended to the ledger with a null classification if and
\* only if the execution it records had exit code 0, was not timed out and left
\* no line starting with an error marker in its filtered stderr; entries already
\* in the ledger are not changed.
C19_NullClassIffCleanExit ==
    [][(attempts' # attempts /\ attempts' # <<>>) =>
          /\ Len(attempts') = Len(attempts) + 1
          /\ SubSeq(attempts', 1, Len(attempts)) = attempts
          /\ (attempts'[Len(attempts')].error_class = None) <=>
                (/\ docker_result'.exit_code = 0
                 /\ ~docker_result'.timed_out
                 /\ docker_result'.stderr \cap ErrorLines = {})]_vars

C19_Witness ==
    /\ pc = "done"
    /\ outcome = "returned"
    /\ Len(attempts) = 2
    /\ attempts[1].error_class = UNKNOWN
    /\ attempts[2].error_class = None
    /\ docker_result.stderr = {"warn_stat"}

\* C20: the generation of attempt 1 is shown no previous error of the loop, and
\* the generation of every attempt k > 1 is shown the filtered stderr of attempt
\* k - 1 as its previous error, whatever that stderr is.
C20_PreviousErrorFeedback ==
    (pc = "execute" /\ gen.llm_called) =>
        /\ gen.attempt = attempt_num
        /\ gen.attempt = 1 => gen.prompt # "last_error"
        /\ gen.attempt > 1 =>
              /\ last_error = docker_result.stderr
              /\ gen.prompt = "last_error"

(***************************************************************************)
(* Claims about the hint, checked under SpecDiagnose.                      *)
(***************************************************************************)
OwnSummary(disagreement, track) ==
    IF track = "track_a" THEN disagreement.track_a_summary
    ELSE disagreement.track_b_summary

\* C11: the hint text handed to the failing track is the same for every
\* disagreement of the same stage that names the same failing track with the
\* same output of its own and differs only in the other track's output.
C11_HintHidesOtherTrack ==
    rpc = "diagnosed" =>
        \A other \in Disagreements :
            (/\ other.stage = current_disagreement.stage
             /\ _diagnose(other) = failing_track
             /\ OwnSummary(other, failing_track)
                    = OwnSummary(current_disagreement, failing_track)) =>
                to_prompt_text(_generate_hint(other, failing_track)) = hint_text

(***************************************************************************)
(* Claims about PipelineOrchestrator.run, checked under SpecRun.            *)
(***************************************************************************)
ResolutionRan == rpc = "returned"
Unresolved == ResolutionRan /\ ~result.resolved
HasVerdict == verdict # None

\* C12: the verdict run ends with is WARNING exactly when resolution ended
\* unresolved with a winning track, HALT exactly when there is a disagreement
\* and resolution is disabled or ended unresolved without a winning track, and
\* PASS exactly when there is no disagreement or resolution converged.
C12_TerminalVerdict ==
    HasVerdict =>
        /\ verdict = "WARNING" <=> (Unresolved /\ result.winning_track # None)
        /\ verdict = "HALT" <=>
                /\ comparison_result.has_disagreement
                /\ ~resolution_enabled \/ (Unresolved /\ result.winning_track = None)
        /\ verdict = "PASS" <=>
                \/ ~comparison_result.has_disagreement
                \/ ResolutionRan /\ result.resolved

C12_Witness ==
    /\ run_pc = "completed" /\ verdict = "WARNING"
    /\ comparison_result.has_disagreement /\ Unresolved

PassOrWarning == verdict \in {"PASS", "WARNING"}

\* C13: a run whose verdict is PASS or WARNING starts the medical writer step
\* once and only after that verdict is in verdict.json; a run that halts never
\* starts it.
C13_WriterOnceAfterVerdict ==
    /\ [](/\ writer_starts <= 1
          /\ run_pc = "report" => (PassOrWarning /\ verdict_file = verdict)
          /\ run_pc \in {"writer", "completed"} => (PassOrWarning /\ writer_starts = 1)
          /\ verdict = "HALT" => writer_starts = 0)
    /\ [][writer_starts' # writer_starts =>
            (PassOrWarning /\ verdict_file = verdict /\ UNCHANGED <<verdict, verdict_file>>)]_vars

C13_Witness ==
    /\ run_pc = "completed" /\ verdict = "PASS" /\ verdict_file = "PASS"
    /\ writer_starts = 1

\* C14: when the first comparison reports a disagreement and resolution is
\* disabled, run raises ConsensusHaltError carrying a HALT verdict, and by then
\* the status "failed" is in the state and in the saved state file.
C14_DisabledResolutionHalts ==
    [][(run_pc = "tracks" /\ comparison_result'.compared
            /\ comparison_result'.has_disagreement /\ ~resolution_enabled) =>
          /\ run_pc' = "raised"
          /\ raised'.type = "ConsensusHaltError"
          /\ raised'.verdict = "HALT"
          /\ state'.status = "failed"
          /\ state_file' = state']_vars

C14_Witness ==
    /\ run_pc = "raised" /\ raised.type = "ConsensusHaltError"
    /\ ~resolution_enabled /\ comparison_result.has_disagreement
    /\ comparison_result.first_disagreement.stage = "adam"
    /\ state_file.status = "failed"

StagePairs == {<<"sdtm", "adam">>, <<"adam", "stats">>}

\* C15: within a track, in the initial run and in every resolution rerun, the
\* agent of stage N+1 is started only when stage N's last run succeeded and
\* its schema validation returned without error.
C15_StageGate ==
    [][\A t \in Tracks, p \in StagePairs :
          (gate'[t][p[2]] = "running" /\ gate[t][p[2]] # "running") =>
              /\ gate'[t][p[1]] = "validated"
              /\ gate[t][p[1]] \in {"running", "validated"}]_vars

C15_Witness ==
    /\ run_pc = "resolving" /\ rpc = "rerun"
    /\ current_disagreement.stage = "sdtm"
    /\ call.agent = "stats" /\ call.track_id = failing_track
    /\ gate[failing_track] = [st \in StageNames |->
                                IF st = "stats" THEN "running" ELSE "validated"]
    /\ Len(rerun_log) = 3

TrackFailed == \E t \in Tracks : track_pc[t] = "raised"

\* C16: under every interleaving of the two tracks the first
\* compare_all_stages call is made only when both tracks have finished their
\* three stages and passed the three validations; when a track failed no
\* comparison is made.
C16_CompareAfterJoin ==
    /\ [](TrackFailed => ~comparison_result.compared)
    /\ [][(~comparison_result.compared /\ comparison_result'.compared) =>
            /\ \A t \in Tracks :
                /\ track_pc[t] = "done"
                /\ \A st \in StageNames : gate[t][st] = "validated"
            /\ TrackSteps \subseteq recorded]_vars

C16_Witness ==
    /\ comparison_result.compared /\ run_pc = "verdict"
    /\ state.current_step = StepName("stats", "track_a")
    /\ \A t \in Tracks, st \in StageNames : gate[t][st] = "validated"

StepFailure == raised.type \in {"NonRetriableError", "SchemaValidationError"}

\* C17: when a step ends in a non-retriable execution failure or a schema
\* validation failure, by the time run raises the failure is recorded for the
\* step in PipelineState, the overall status is "failed" and the state file
\* has been saved with both.
C17_FailureRecorded ==
    (run_pc = "raised" /\ StepFailure) =>
        /\ state.steps[raised.step] = "failed"
        /\ state.status = "failed"
        /\ state_file = state

InFile(name) == state_file.steps[name] = "completed"

\* C18: under every interleaving of the two tracks no step record is lost or
\* overwritten by the other track: the saved state file holds every step
\* recorded so far, and after the join it holds the simulator step and the six
\* track steps.
C18_NoStepLost ==
    /\ \A name \in recorded : InFile(name)
    /\ comparison_result.compared =>
            \A name \in TrackSteps \cup {StepName("simulator", "shared")} : InFile(name)

C18_Witness ==
    /\ run_pc = "tracks"
    /\ recorded = {StepName("simulator", "shared"), StepName("sdtm", "track_b"),
                   StepName("adam", "track_b"), StepName("sdtm", "track_a")}
    /\ state.current_step = StepName("sdtm", "track_a")
    /\ state_file = state
    /\ InFile(StepName("adam", "track_b"))

\* run is over: it returned or an exception left it.
RunEnded == run_pc \in {"completed", "raised"}

\* The result of the most recent compare_all_stages pass of the run: the one
\* resolve made last, or the one run made when resolve made none.
LatestComparison ==
    IF new_comparison_result.compared THEN new_comparison_result ELSE comparison_result

\* C30: when run ends after at least one comparison, whatever the verdict,
\* stage_comparisons.json holds the result of the most recent
\* compare_all_stages pass of the run, a pass made inside the resolution loop
\* included.
C30_LatestComparisonsSaved ==
    (RunEnded /\ comparison_result.compared) =>
        stage_comparisons_file = LatestComparison

(***************************************************************************)
(* classify_error as a function of its three arguments.                    *)
(***************************************************************************)
\* What a pure function's application leaves alone.
PureFrame == UNCHANGED <<agent_vars, resolve_vars, run_vars, exec_vars, hook_vars, arg>>

\* return <value>
Return(value) == [done |-> TRUE, value |-> value]

\* Every (stderr, exit_code, timed_out): any set of line kinds, any of the
\* exit codes, with and without the timeout flag.
ClassifyInputs ==
    { [stderr |-> s, exit_code |-> e, timed_out |-> t] :
        s \in SUBSET LineKinds, e \in {0, 1, -1}, t \in BOOLEAN }

InitClassify ==
    /\ InitProgramOff
    /\ cache = [k \in Keys |-> NoScript]
    /\ arg \in ClassifyInputs
    /\ ret = NoReturn

ApplyClassify ==
    /\ ~ret.done
    /\ ret' = Return(classify_error(arg.stderr, arg.exit_code, arg.timed_out))
    /\ PureFrame

SpecClassify == InitClassify /\ [][ApplyClassify]_vars

\* The decision order the classification is documented with.
ClassOrder ==
    <<TIMEOUT, ENVIRONMENT_ERROR, DATA_PATH_ERROR, STATISTICAL_ERROR, CODE_BUG, UNKNOWN>>

\* The input carries the signature of the class; every input counts as UNKNOWN.
Carries(input, class) ==
    IF class = TIMEOUT THEN input.timed_out
    ELSE IF class = ENVIRONMENT_ERROR THEN "err_env" \in input.stderr
    ELSE IF class = DATA_PATH_ERROR THEN "warn_path" \in input.stderr
    ELSE IF class = STATISTICAL_ERROR
         THEN "err_stat" \in input.stderr \/ "warn_stat" \in input.stderr
    ELSE IF class = CODE_BUG
         THEN \E l \in {"err_env", "err_stat", "err_bug"} : l \in input.stderr
    ELSE TRUE

\* C24: classify_error returns one member of ErrorClassification for every
\* input, and it is the earliest class, in the order TIMEOUT,
\* ENVIRONMENT_ERROR, DATA_PATH_ERROR, STATISTICAL_ERROR, CODE_BUG, UNKNOWN,
\* whose signature the input carries.
C24_FirstMatchWins ==
    ret.done =>
        \E i \in DOMAIN ClassOrder :
            /\ ret.value = ClassOrder[i]
            /\ ret.value \in ErrorClassification
            /\ Carries(arg, ClassOrder[i])
            /\ \A j \in 1..(i - 1) : ~Carries(arg, ClassOrder[j])

\* An input with the signatures of three classes got the earliest of them.
C24_Witness ==
    /\ ret.done
    /\ ~arg.timed_out
    /\ Carries(arg, ENVIRONMENT_ERROR)
    /\ Carries(arg, DATA_PATH_ERROR)
    /\ Carries(arg, STATISTICAL_ERROR)
    /\ ret.value = ENVIRONMENT_ERROR

(***************************************************************************)
(* filter_r_stderr on the text of a stderr.  A text is the sequence of its *)
(* lines as str.splitlines gives them; a line is its leading whitespace,   *)
(* the kind of its text and its trailing whitespace.                       *)
(***************************************************************************)
LineTexts ==
    { "error",        \* Error in eval(expr) : oops
      "error_noise",  \* Error in loading package: replacing previous import
      "loading",      \* Loading required package: survival
      "masks",        \* dplyr::filter() masks stats::filter()
      "words",        \* filter, lag
      "warning",      \* Warning message: NAs introduced by coercion
      "empty" }       \* no text at all

\* indent: the line starts with two or more blanks; trail: it ends with blanks.
\* A line without text is "" or, with indent, made of blanks only.
TextLines ==
    { [indent |-> i, text |-> t, trail |-> r] :
        i \in BOOLEAN, t \in LineTexts \ {"empty"}, r \in BOOLEAN }
    \cup { [indent |-> i, text |-> "empty", trail |-> FALSE] : i \in BOOLEAN }

MaxLines == 3

SeqsUpTo(S, n) == UNION { [1..k -> S] : k \in 0..n }

\* stripped = line.strip(); stripped.startswith("Error") or ("error")
StartsWithError(line) == line.text \in {"error", "error_noise"}

\* any(p.search(line) for p in _NOISE_PATTERNS)
MatchesNoise(line) ==
    \/ line.text \in {"masks", "error_noise"}      \* patterns without an anchor
    \/ line.text = "loading" /\ ~line.indent       \* ^Loading required package:\s
    \/ line.text = "words" /\ line.indent          \* ^\s{2,}[\w.,\s]+$
    \/ line.text = "empty" /\ line.indent          \* ^[─-╿\s-]+$

KeptUnlessNoise(line) == ~MatchesNoise(line)

\* The loop body: whether the line is appended to filtered_lines.
Kept(line) == StartsWithError(line) \/ ~MatchesNoise(line)

\* A line str.strip removes whole: nothing but whitespace.
IsBlank(line) == line.text = "empty"

RECURSIVE LStrip(_)
LStrip(lines) ==
    IF lines = <<>> THEN <<>>
    ELSE IF IsBlank(Head(lines)) THEN LStrip(Tail(lines))
    ELSE <<[Head(lines) EXCEPT !.indent = FALSE]>> \o Tail(lines)

RECURSIVE RStrip(_)
RStrip(lines) ==
    IF lines = <<>> THEN <<>>
    ELSE LET n == Len(lines)
         IN  IF IsBlank(lines[n]) THEN RStrip(SubSeq(lines, 1, n - 1))
             ELSE SubSeq(lines, 1, n - 1) \o <<[lines[n] EXCEPT !.trail = FALSE]>>

\* "\n".join(filtered_lines).strip(), as the lines of the result
JoinStrip(lines) == RStrip(LStrip(lines))

\* filter_r_stderr on a text
filter_r_stderr_text(stderr) ==
    IF stderr = <<>> THEN <<>>
    ELSE JoinStrip(SelectSeq(stderr, Kept))

InitFilter ==
    /\ InitProgramOff
    /\ cache = [k \in Keys |-> NoScript]
    /\ arg \in SeqsUpTo(TextLines, MaxLines)
    /\ ret = NoReturn

\* filter_r_stderr(stderr)
ApplyFilter ==
    /\ ~ret.done
    /\ ret' = Return(filter_r_stderr_text(arg))
    /\ PureFrame

\* filter_r_stderr applied to the result of the previous application
ApplyFilterAgain ==
    /\ ret.done
    /\ "again" \notin DOMAIN ret
    /\ arg' = ret.value
    /\ ret' = [done |-> TRUE, value |-> filter_r_stderr_text(ret.value), again |-> TRUE]
    /\ UNCHANGED <<agent_vars, resolve_vars, run_vars, exec_vars, hook_vars>>

NextFilter == ApplyFilter \/ ApplyFilterAgain

SpecFilter == InitFilter /\ [][NextFilter]_vars

\* C26: filter_r_stderr is idempotent: applying it to its own result gives
\* that result again.
C26_FilterIdempotent ==
    [][(ret.done /\ ret'.done) => ret'.value = ret.value]_vars

\* The line begins with "Error": no leading whitespace before it.
BeginsWithError(line) == ~line.indent /\ line.text \in {"error", "error_noise"}

\* The line without the whitespace at its end.
TrimEnd(line) == [line EXCEPT !.trail = FALSE]

STATS_TOLERANCES ==
    [n_subjects          |-> [type |-> "exact",    threshold |-> 0],
     n_events            |-> [type |-> "exact",    threshold |-> 0],
     n_censored          |-> [type |-> "exact",    threshold |-> 0],
     logrank_p           |-> [type |-> "absolute", threshold |-> 1],
     cox_hr              |-> [type |-> "relative", threshold |-> 1],
     km_median_treatment |-> [type |-> "absolute", threshold |-> 5],
     km_median_placebo   |-> [type |-> "absolute", threshold |-> 5]]

Metrics == DOMAIN STATS_TOLERANCES

MaxUnits == 12

\* The values of a metric: small counts, p-values from 0.000, medians from
\* 0.0, hazard ratios around 1.000.
MetricValues(metric) ==
    IF metric = "cox_hr" THEN (1000 - MaxUnits)..(1000 + MaxUnits) ELSE 0..MaxUnits

\* For two decimals whose difference is exactly the threshold, the smaller
\* values for which the doubles give a difference above the threshold:
\* abs(0.01 - 0.009) is 1.0000000000000009e-3, abs(1.1 - 0.6) is
\* 0.5000000000000001, abs(1.0 - 0.999) is 1.0000000000000009e-3 against
\* 0.001 * 1.0.  (logrank_p up to 0.044, medians up to 4.4, cox_hr from 0.980
\* to 1.020.)
DoubleAboveThreshold ==
    [logrank_p           |-> {9, 11, 13, 15, 16, 18, 19, 20, 22, 23, 24, 26, 27, 28,
                              30, 31, 32, 33, 34, 36, 37, 38, 39, 40, 41, 43, 44},
     cox_hr              |-> {999},
     km_median_treatment |-> {6, 17, 39},
     km_median_placebo   |-> {6, 17, 39}]

Smaller(a, b) == IF a <= b THEN a ELSE b
Larger(a, b) == IF a <= b THEN b ELSE a

\* The body of the loop over the metrics: `within`.
within(metric, val_a, val_b) ==
    LET spec == STATS_TOLERANCES[metric]
        lo == Smaller(val_a, val_b)
        hi == Larger(val_a, val_b)
    IN  IF spec.type = "exact" THEN val_a = val_b
        ELSE IF spec.type = "absolute"
        THEN \* abs(val_a - val_b) <= threshold
             IF hi - lo = spec.threshold
             THEN lo \notin DoubleAboveThreshold[metric]
             ELSE hi - lo < spec.threshold
        ELSE \* math.isclose(val_a, val_b, rel_tol=threshold, abs_tol=0)
             IF val_a = val_b THEN TRUE
             ELSE IF 1000 * (hi - lo) = spec.threshold * hi
             THEN lo \notin DoubleAboveThreshold[metric]
             ELSE 1000 * (hi - lo) < spec.threshold * hi

ToleranceInputs ==
    UNION { { [metric |-> m, val_a |-> a, val_b |-> b] :
                a \in MetricValues(m), b \in MetricValues(m) } : m \in Metrics }

InitTolerance ==
    /\ InitProgramOff
    /\ cache = [k \in Keys |-> NoScript]
    /\ arg \in ToleranceInputs
    /\ ret = NoReturn

ApplyWithin ==
    /\ ~ret.done
    /\ ret' = Return(within(arg.metric, arg.val_a, arg.val_b))
    /\ PureFrame

SpecTolerance == InitTolerance /\ [][ApplyWithin]_vars

\* |a - b| in the metric's unit.
Distance(a, b) == Larger(a, b) - Smaller(a, b)

\* C28: for each tolerance type, two values are within tolerance exactly when
\* they are equal (exact), when |a - b| <= threshold (absolute), or when
\* |a - b| <= threshold * max(|a|, |b|) (relative); in particular two values
\* that differ by exactly the threshold are within tolerance.
C28_ToleranceBoundary ==
    ret.done =>
        LET spec == STATS_TOLERANCES[arg.metric]
        IN  ret.value =
                IF spec.type = "exact" THEN arg.val_a = arg.val_b
                ELSE IF spec.type = "absolute"
                THEN Distance(arg.val_a, arg.val_b) <= spec.threshold
                ELSE 1000 * Distance(arg.val_a, arg.val_b)
                        <= spec.threshold * Larger(arg.val_a, arg.val_b)

(***************************************************************************)
(* SpecCompare: run and the resolution loop with every compare_all_stages  *)
(* result kept next to what was derived from it.  The sandbox runs of the  *)
(* re-run stages succeed; the comparator may report anything.              *)
(***************************************************************************)
SuccessfulResults ==
    { raw \in DockerResults :
        IsSuccess([raw EXCEPT !.stderr = filter_r_stderr(raw.stderr)]) }

ExecuteSucceeds ==
    /\ \E raw \in SuccessfulResults : ExecuteReturnsWith(raw)
    /\ UNCHANGED exec_vars

\* compare_all_stages returned `comparisons`, wrapped in a StageComparisonResult.
Compared(comparisons) ==
    /\ arg' = comparisons
    /\ ret' = Return(StageComparisonResult(comparisons))

ComparedAgrees ==
    \E comparisons \in CompareAllStages("sdtm") :
        CompareAgreesWith(comparisons) /\ Compared(comparisons)

ComparedStartsResolution ==
    \E comparisons \in CompareAllStages("sdtm") :
        CompareStartsResolutionWith(comparisons) /\ Compared(comparisons)

ComparedHalts ==
    \E comparisons \in CompareAllStages("sdtm") :
        CompareHaltsWith(comparisons) /\ Compared(comparisons)

ComparedAgain ==
    /\ rpc = "compare"
    /\ \E comparisons \in CompareAllStages(current_disagreement.stage) :
            CompareWith(comparisons) /\ Compared(comparisons)

NextCompare ==
    \/ SimulatorReturns
    \/ \E t \in Tracks : TrackStart(t)
    \/ \E t \in Tracks : TrackStageReturns(t)
    \/ GatherRaises
    \/ ComparedAgrees
    \/ ComparedStartsResolution
    \/ ComparedHalts
    \/ ResolveIterate
    \/ GenerateHit
    \/ ExecuteSucceeds
    \/ StageValidated
    \/ RerunReturns
    \/ StageInvalid
    \/ ComparedAgain
    \/ ResolveExhausted
    \/ ResolutionReturns
    \/ ResolutionRaises
    \/ BuildVerdict
    \/ StartWriter
    \/ WriterReturns

\* run is called with settings.resolution.max_iterations up to MaxIter.
InitCompare ==
    /\ InitRunUpTo(MaxIter)
    /\ InitHooksOff

SpecCompare == InitCompare /\ [][NextCompare]_vars

\* The positions of the stages that do not match.
Mismatching(comparisons) == {i \in DOMAIN comparisons : ~comparisons[i].matches}

\* The stage _rerun_from_stage has just been started from.
RerunStarts == rpc = "iterate" /\ rpc' = "rerun"

\* C27: for every result of compare_all_stages the comparisons stand in the
\* order sdtm, adam, stats, first_disagreement is the mismatching comparison
\* that comes earliest in that order, and it is None exactly when all three
\* stages match; the stage a resolution re-run starts from is the stage of the
\* first_disagreement of the latest result.
C27_EarliestDisagreement ==
    /\ [](ret.done =>
            /\ \A i \in DOMAIN arg : arg[i].stage = StageOrder[i]
            /\ (ret.value.first_disagreement = NoDisagreement)
                    <=> (Mismatching(arg) = {})
            /\ \A i \in Mismatching(arg) :
                    (\A j \in Mismatching(arg) : i <= j)
                        => ret.value.first_disagreement = arg[i])
    /\ [][RerunStarts =>
            /\ ret.done
            /\ rerun_log'[1].stage = ret.value.first_disagreement.stage
            /\ call'.agent = ret.value.first_disagreement.stage]_vars

\* After a first re-run adam and stats both mismatch, and the second re-run
\* was started from adam.
C27_Witness ==
    /\ ret.done
    /\ reruns = 1
    /\ arg[1].matches /\ ~arg[2].matches /\ ~arg[3].matches
    /\ rpc = "rerun"
    /\ Len(rerun_log) = 1
    /\ rerun_log[1].stage = "adam"

(***************************************************************************)
(* SchemaValidator.validate_sdtm and validate_adam.  A stage output is     *)
(* described by which of its files exist and by what each check finds in   *)
(* the files that exist; an issue is named by the check that reports it.   *)
(***************************************************************************)
\* issues.append(text) when cond holds
Issue(cond, text) == IF cond THEN <<text>> ELSE <<>>

\* raise SchemaValidationError(agent, issues)
SchemaValidationError(agent, issue_list) ==
    [raised |-> TRUE, agent |-> agent, issues |-> issue_list]

\* return None
Passed == [raised |-> FALSE, agent |-> None, issues |-> <<>>]

\* An SDTM output directory: dm_missing and vs_missing are the required
\* columns the file lacks (of SEX and USUBJID, of USUBJID).
SdtmOutputs ==
    { [stage |-> "sdtm", dm_exists |-> de, vs_exists |-> ve, dm_missing |-> dm,
       vs_missing |-> vm, dm_rows_ok |-> dr, vs_rows_ok |-> vr, sex_valid |-> sv,
       orphans |-> o] :
        de \in BOOLEAN, ve \in BOOLEAN, dm \in SUBSET {"SEX", "USUBJID"},
        vm \in SUBSET {"USUBJID"}, dr \in BOOLEAN, vr \in BOOLEAN, sv \in BOOLEAN,
        o \in BOOLEAN }

validate_sdtm(out) ==
    LET files == Issue(~out.dm_exists, "DM.csv not found")
                 \o Issue(~out.vs_exists, "VS.csv not found")
        content ==
            Issue(out.dm_missing # {}, "DM columns")
            \o Issue(out.vs_missing # {}, "VS columns")
            \o Issue(~out.dm_rows_ok, "DM rows")
            \o Issue(~out.vs_rows_ok, "VS rows")
            \o Issue("SEX" \notin out.dm_missing /\ ~out.sex_valid, "DM.SEX")
            \o Issue("USUBJID" \notin out.dm_missing /\ "USUBJID" \notin out.vs_missing
                        /\ out.orphans, "Referential integrity")
    IN  IF files # <<>> THEN SchemaValidationError("SDTM", files)
        ELSE IF content # <<>> THEN SchemaValidationError("SDTM", content)
        ELSE Passed

\* A summary JSON file: missing, not parsable, or parsed with its counts.
SummaryFiles ==
    { [file |-> f, n_rows |-> 0, n_events |-> 0, n_censored |-> 0, cols_ok |-> TRUE,
       paramcd_ok |-> TRUE] : f \in {"missing", "unparsable"} }
    \cup { [file |-> "parsed", n_rows |-> r, n_events |-> e, n_censored |-> c,
            cols_ok |-> co, paramcd_ok |-> p] :
            r \in Counts, e \in Counts, c \in Counts, co \in BOOLEAN, p \in BOOLEAN }

\* ADSL_summary.json has no events, censored or PARAMCD entries.
AdslSummaryFiles ==
    { s \in SummaryFiles : s.n_events = 0 /\ s.n_censored = 0 /\ s.paramcd_ok }

AdamOutputs ==
    { [stage |-> "adam", adsl_csv |-> ac, adsl_summary |-> as, rds |-> rd,
       summary |-> su, expected_subjects |-> n] :
        ac \in BOOLEAN, as \in AdslSummaryFiles, rd \in BOOLEAN, su \in SummaryFiles,
        n \in Counts \ {0} }

\* event_rate = n_events / n_rows; event_rate > 0.95
HighEventRate(s) == s.n_rows > 0 /\ 100 * s.n_events > 95 * s.n_rows

validate_adam(out) ==
    LET adsl == out.adsl_summary
        s == out.summary
        n == out.expected_subjects
        adsl_issues ==
            Issue(~out.adsl_csv, "ADSL.csv not found")
            \o Issue(adsl.file = "missing", "ADSL_summary.json not found")
            \o (IF out.adsl_csv /\ adsl.file # "missing"
                THEN IF adsl.file = "unparsable"
                     THEN <<"ADSL_summary.json parse error">>
                     ELSE Issue(adsl.n_rows # n, "ADSL rows")
                          \o Issue(~adsl.cols_ok, "ADSL columns")
                ELSE <<>>)
        files ==
            Issue(~out.rds, "ADTTE.rds not found")
            \o Issue(s.file = "missing", "ADTTE_summary.json not found")
        content ==
            Issue(s.n_rows # n, "ADTTE rows")
            \o Issue(s.n_events + s.n_censored # n, "ADTTE events + censored")
            \o Issue(s.n_censored = 0, "ADTTE n_censored is 0")
            \o Issue(HighEventRate(s), "ADTTE event rate")
            \o Issue(~s.cols_ok, "ADTTE columns")
            \o Issue(~s.paramcd_ok, "ADTTE.PARAMCD")
        issue_list == adsl_issues \o files
    IN  IF ~out.rds \/ s.file = "missing"
        THEN SchemaValidationError("ADaM", issue_list)
        ELSE IF s.file = "unparsable"
        THEN SchemaValidationError("ADaM",
                                   Append(issue_list, "ADTTE_summary.json parse error"))
        ELSE IF issue_list \o content # <<>>
        THEN SchemaValidationError("ADaM", issue_list \o content)
        ELSE Passed

InitValidate ==
    /\ InitProgramOff
    /\ cache = [k \in Keys |-> NoScript]
    /\ arg \in SdtmOutputs \cup AdamOutputs
    /\ ret = NoReturn

ValidateSdtm ==
    /\ ~ret.done
    /\ arg.stage = "sdtm"
    /\ ret' = Return(validate_sdtm(arg))
    /\ PureFrame

ValidateAdam ==
    /\ ~ret.done
    /\ arg.stage = "adam"
    /\ ret' = Return(validate_adam(arg))
    /\ PureFrame

NextValidate == ValidateSdtm \/ ValidateAdam

SpecValidate == InitValidate /\ [][NextValidate]_vars

\* The checks of validate_sdtm that the output violates: a file that must
\* exist does not, or a file that exists fails a check on its content.
ViolatedSdtm(out) ==
    { c \in {"DM.csv not found", "VS.csv not found"} :
            \/ c = "DM.csv not found" /\ ~out.dm_exists
            \/ c = "VS.csv not found" /\ ~out.vs_exists }
    \cup { c \in {"DM columns", "DM rows", "DM.SEX"} :
            /\ out.dm_exists
            /\ \/ c = "DM columns" /\ out.dm_missing # {}
               \/ c = "DM rows" /\ ~out.dm_rows_ok
               \/ c = "DM.SEX" /\ "SEX" \notin out.dm_missing /\ ~out.sex_valid }
    \cup { c \in {"VS columns", "VS rows"} :
            /\ out.vs_exists
            /\ \/ c = "VS columns" /\ out.vs_missing # {}
               \/ c = "VS rows" /\ ~out.vs_rows_ok }
    \cup { c \in {"Referential integrity"} :
            /\ out.dm_exists /\ out.vs_exists
            /\ "USUBJID" \notin out.dm_missing /\ "USUBJID" \notin out.vs_missing
            /\ out.orphans }

\* The checks of validate_adam that the output violates.
ViolatedAdam(out) ==
    LET adsl == out.adsl_summary
        s == out.summary
        n == out.expected_subjects
    IN  { c \in {"ADSL.csv not found", "ADSL_summary.json not found",
                 "ADSL_summary.json parse error", "ADSL rows", "ADSL columns",
                 "ADTTE.rds not found", "ADTTE_summary.json not found",
                 "ADTTE_summary.json parse error", "ADTTE rows",
                 "ADTTE events + censored", "ADTTE n_censored is 0",
                 "ADTTE event rate", "ADTTE columns", "ADTTE.PARAMCD"} :
            \/ c = "ADSL.csv not found" /\ ~out.adsl_csv
            \/ c = "ADSL_summary.json not found" /\ adsl.file = "missing"
            \/ c = "ADSL_summary.json parse error" /\ adsl.file = "unparsable"
            \/ c = "ADSL rows" /\ adsl.file = "parsed" /\ adsl.n_rows # n
            \/ c = "ADSL columns" /\ adsl.file = "parsed" /\ ~adsl.cols_ok
            \/ c = "ADTTE.rds not found" /\ ~out.rds
            \/ c = "ADTTE_summary.json not found" /\ s.file = "missing"
            \/ c = "ADTTE_summary.json parse error" /\ s.file = "unparsable"
            \/ /\ s.file = "parsed"
               /\ \/ c = "ADTTE rows" /\ s.n_rows # n
                  \/ c = "ADTTE events + censored" /\ s.n_events + s.n_censored # n
                  \/ c = "ADTTE n_censored is 0" /\ s.n_censored = 0
                  \/ c = "ADTTE event rate" /\ HighEventRate(s)
                  \/ c = "ADTTE columns" /\ ~s.cols_ok
                  \/ c = "ADTTE.PARAMCD" /\ ~s.paramcd_ok }

Violated(out) == IF out.stage = "sdtm" THEN ViolatedSdtm(out) ELSE ViolatedAdam(out)

Listed(error) == {error.issues[i] : i \in DOMAIN error.issues}

\* C29: when a stage output violates checks of its validator, the
\* SchemaValidationError that is raised lists every violated check of that
\* stage in its issues, and not only the first ones found.
C29_AllIssuesListed ==
    ret.done =>
        /\ ret.value.raised <=> (Violated(arg) # {})
        /\ ret.value.raised => Violated(arg) \subseteq Listed(ret.value)

(***************************************************************************)
(* RExecutor.execute, run in a worker thread by asyncio.to_thread, one     *)
(* Docker call per step.  A Docker call returns, raises                    *)
(* docker.errors.APIError, or raises another exception (the connection to  *)
(* the daemon fails: requests' ConnectionError or ReadTimeout).            *)
(***************************************************************************)
CallOutcomes == {"ok", "APIError", "other"}

\* The Docker call is appended to the calls the execution has made.
Called(e, api) == [e EXCEPT !.calls = Append(@, api)]

\* How execute ends after the finally block: the pending return or exception.
ExecuteEnds(pending) == IF pending = "return" THEN "returned" ELSE "raised"

\* Positions at which the worker thread is inside execute.
InFlight == {"run", "wait", "stop", "kill", "logs", "finally"}

ExecFrame == UNCHANGED <<agent_vars, resolve_vars, run_vars, hook_vars, pure_vars, abort>>

\* await asyncio.to_thread(executor.execute, code, work_dir, input_volumes)
ExecStart ==
    /\ pc = "execute"
    /\ abort = "none"
    /\ exec.pc \in {"off", "done"}
    /\ exec' = [NoExec EXCEPT !.pc = "run"]
    /\ ExecFrame

\* client.containers.run(detach=True): it creates the container, starts it and
\* returns it; it raises without a container, or after the container was
\* created when starting it fails, and then `container` stays None.
ExecRun ==
    /\ exec.pc = "run"
    /\ \E o \in {"started", "not_created", "not_started"} :
        exec' = IF o = "started"
                THEN [Called(exec, "run") EXCEPT !.pc = "wait", !.bound = TRUE,
                         !.created = TRUE, !.container = "running"]
                ELSE IF o = "not_started"
                THEN [Called(exec, "run") EXCEPT !.pc = "finally", !.created = TRUE,
                         !.container = "created", !.pending = "run"]
                ELSE [Called(exec, "run") EXCEPT !.pc = "finally", !.pending = "run"]
    /\ ExecFrame

\* container.wait(timeout=self._timeout): the script ends with a status code,
\* the wait times out, or it fails otherwise and the exception is re-raised.
ExecWait ==
    /\ exec.pc = "wait"
    /\ \/ \E status \in {0, 1} :
            exec' = [Called(exec, "wait") EXCEPT !.pc = "logs", !.exit_code = status,
                        !.container = "exited"]
       \/ exec' = [Called(exec, "wait") EXCEPT !.pc = "stop", !.timed_out = TRUE]
       \/ exec' = [Called(exec, "wait") EXCEPT !.pc = "finally", !.pending = "wait"]
    /\ ExecFrame

AfterStopAlwaysKill(o) == "kill"

\* try: container.stop(timeout=10) / except docker.errors.APIError:
\* container.kill(); any other exception leaves the try block.
AfterStop(o) ==
    IF o = "ok" THEN "logs" ELSE IF o = "APIError" THEN "kill" ELSE "finally"

ExecStop ==
    /\ exec.pc = "stop"
    /\ \E o \in CallOutcomes :
        exec' = [Called(exec, "stop") EXCEPT
                    !.pc = AfterStop(o),
                    !.container = IF o = "ok" THEN "exited" ELSE @,
                    !.exit_code = IF AfterStop(o) = "logs" THEN -1 ELSE @,
                    !.pending = IF AfterStop(o) = "finally" THEN "stop" ELSE @]
    /\ ExecFrame

ExecKill ==
    /\ exec.pc = "kill"
    /\ \E o \in CallOutcomes :
        exec' = IF o = "ok"
                THEN [Called(exec, "kill") EXCEPT !.pc = "logs", !.exit_code = -1,
                         !.container = "exited"]
                ELSE [Called(exec, "kill") EXCEPT !.pc = "finally", !.pending = "kill"]
    /\ ExecFrame

\* What the container wrote to stderr: nothing, or an R error.
LoggedStderrs == { {}, {"err_bug"}, {"err_env"} }

\* The two container.logs calls and the return statement.
ExecLogs ==
    /\ exec.pc = "logs"
    /\ \/ \E s \in LoggedStderrs :
            exec' = [Called(exec, "logs") EXCEPT !.pc = "finally", !.stderr = s,
                        !.pending = "return"]
       \/ exec' = [Called(exec, "logs") EXCEPT !.pc = "finally", !.pending = "logs"]
    /\ ExecFrame

\* finally: if container is not None: container.remove(force=True); only
\* docker.errors.APIError is caught and logged.
ExecFinally ==
    /\ exec.pc = "finally"
    /\ IF ~exec.bound
       THEN exec' = [exec EXCEPT !.pc = ExecuteEnds(exec.pending)]
       ELSE \E o \in CallOutcomes :
               exec' = [Called(exec, "remove") EXCEPT
                           !.container = IF o = "ok" THEN "removed" ELSE @,
                           !.logged = (o = "APIError"),
                           !.pending = IF o = "other" THEN "remove" ELSE @,
                           !.pc = IF o = "other" THEN "raised" ELSE ExecuteEnds(exec.pending)]
    /\ ExecFrame

\* The DockerResult execute returns.
DockerResult(e) == [exit_code |-> e.exit_code, timed_out |-> e.timed_out, stderr |-> e.stderr]

\* The awaited call returns its result to execute_with_retry.
ThreadReturns ==
    /\ abort = "none"
    /\ exec.pc = "returned"
    /\ ExecuteReturnsWith(DockerResult(exec))
    /\ exec' = [exec EXCEPT !.pc = "done"]
    /\ UNCHANGED abort

\* The awaited call raises what execute raised.
ThreadRaises ==
    /\ abort = "none"
    /\ exec.pc = "raised"
    /\ ExecutorRaised
    /\ exec' = [exec EXCEPT !.pc = "done"]
    /\ UNCHANGED abort

\* The user interrupts the run while execute is in flight: the coroutine that
\* awaits the worker thread is cancelled; the thread itself runs on.
Abort ==
    /\ abort = "none"
    /\ pc = "execute"
    /\ exec.pc \in InFlight
    /\ abort' = "requested"
    /\ pc' = "done"
    /\ outcome' = "CancelledError"
    /\ delivered' = LedgerOnException(attempts)
    /\ UNCHANGED <<cache, call, attempt_num, last_error, attempts, code, docker_result,
                   gen, executed, succeeded, resolve_vars, run_vars, hook_vars, pure_vars,
                   exec>>

\* cli.run: except KeyboardInterrupt.  asyncio.run waits for the worker thread
\* when it closes the loop, but a further interrupt or the end of the join
\* timeout ends that wait, so the handler may run while execute is in flight.
AbortHandled ==
    /\ abort = "requested"
    /\ abort' = "handled"
    /\ UNCHANGED <<agent_vars, resolve_vars, run_vars, hook_vars, pure_vars, exec>>

InitExec ==
    /\ InitProgramOff
    /\ InitPureOff
    /\ cache = [k \in Keys |-> [body |-> "script_1", eol |-> "lf"]]

\* The orchestrator runs one agent of the pipeline.
RunOneAgent ==
    /\ pc = "idle"
    /\ StartCall("sdtm", "track_a", FALSE)
    /\ UNCHANGED <<resolve_vars, run_vars, exec_vars, hook_vars, pure_vars>>

NextExec ==
    \/ RunOneAgent
    \/ GenerateHit
    \/ GenerateLLM
    \/ GenerateRaises
    \/ ExecStart
    \/ ExecRun
    \/ ExecWait
    \/ ExecStop
    \/ ExecKill
    \/ ExecLogs
    \/ ExecFinally
    \/ ThreadReturns
    \/ ThreadRaises
    \/ Abort
    \/ AbortHandled

SpecExec == InitExec /\ [][NextExec]_vars

\* execute has ended, by return or by exception.
CallEnded == exec.pc \in {"returned", "raised", "done"}

\* C21: every call of RExecutor.execute that created a container has, when it
\* ends, asked Docker to remove that container, on every path; when the
\* removal itself failed this was logged and the failure was not raised to
\* the caller.
C21_ContainerRemoved ==
    (CallEnded /\ exec.created) =>
        /\ exec.calls # <<>>
        /\ exec.calls[Len(exec.calls)] = "remove"
        /\ \/ exec.container = "removed"
           \/ exec.logged /\ exec.pending # "remove"

\* The Docker call the execution has made last.
LastCall == IF exec.calls = <<>> THEN "none" ELSE exec.calls[Len(exec.calls)]

\* The step in which the worker thread makes the Docker call `api`.
Calls(api) == exec'.calls = Append(exec.calls, api)

C23_AbortStopsContainer ==
    (abort = "handled" /\ exec.created) =>
        /\ exec.container # "running"
        /\ \E i \in 1..Len(exec.calls) : exec.calls[i] \in {"stop", "kill"}
        /\ LastCall = "remove"

\* C31: when run ends, by returning or by raising, with a terminal verdict
\* (PASS, WARNING or HALT), verdict.json has been written and holds that
\* verdict.
C31_VerdictArtifactWritten ==
    (RunEnded /\ HasVerdict) => verdict_file = verdict

\* The step name of the stage the running iteration has re-executed last.
LastRerunStep ==
    StepName(rerun_log[Len(rerun_log)].stage, rerun_log[Len(rerun_log)].track_id)

\* C32: when the rerun of a resolution iteration has returned, the steps it
\* re-executed have been recorded in PipelineState and saved: the state file
\* equals the state, lists them as completed, and its current step is the
\* stage re-executed last.
C32_RerunsRecorded ==
    (run_pc = "resolving" /\ rpc = "compare") =>
        /\ state_file = state
        /\ \A i \in 1..Len(rerun_log) :
              state_file.steps[StepName(rerun_log[i].stage, rerun_log[i].track_id)]
                  = "completed"
        /\ state_file.current_step = LastRerunStep

(***************************************************************************)
(* PipelineState.save: path.write_text(self.model_dump_json(indent=2)).    *)
(* arg is the pair of the state saved before and the state being saved,    *)
(* ret.value is the content of pipeline_state.json, token by token.        *)
(***************************************************************************)
\* model_dump_json: the document of a state, as the sequence of its parts.
model_dump_json(st) ==
    <<"{", [f \in {"steps"} |-> st.steps], [f \in {"current_step"} |-> st.current_step],
      [f \in {"status"} |-> st.status], "}">>

\* The mutations run saves the state after.
Mutations(st) ==
    {_record_step(st, name) : name \in StepNames} \cup {Failed(st), Completed(st)}

InitSave ==
    /\ InitProgramOff
    /\ cache = [k \in Keys |-> NoScript]
    /\ \E old \in {NewPipelineState} \cup Mutations(NewPipelineState) :
        \E new \in Mutations(old) \ {old} :
            /\ arg = <<old, new>>
            /\ ret = [done |-> FALSE, value |-> model_dump_json(old), at |-> "saved"]

\* Path.write_text opens the file for writing, which truncates it.
SaveOpens ==
    /\ ret.at = "saved" /\ ~ret.done
    /\ ret' = [ret EXCEPT !.value = <<>>, !.at = "open"]
    /\ PureFrame

\* The document reaches the file piece by piece.
SaveWrites ==
    /\ ret.at = "open"
    /\ Len(ret.value) < Len(model_dump_json(arg[2]))
    /\ ret' = [ret EXCEPT !.value = SubSeq(model_dump_json(arg[2]), 1, Len(@) + 1)]
    /\ PureFrame

\* The file is closed and save returns.
SaveCloses ==
    /\ ret.at = "open"
    /\ ret.value = model_dump_json(arg[2])
    /\ ret' = [ret EXCEPT !.at = "saved", !.done = TRUE]
    /\ PureFrame

\* The process is killed or the run aborted while save is writing.
SaveInterrupted ==
    /\ ret.at = "open"
    /\ ret' = [ret EXCEPT !.at = "crashed"]
    /\ PureFrame

NextSave ==
    \/ SaveOpens
    \/ SaveWrites
    \/ SaveCloses
    \/ SaveInterrupted

SpecSave == InitSave /\ [][NextSave]_vars

\* C33: at every moment, a crash in the middle of a save included,
\* pipeline_state.json is the complete document of the state saved before or
\* of the state being saved.
C33_SaveAtomic ==
    ret.value \in {model_dump_json(arg[1]), model_dump_json(arg[2])}

(***************************************************************************)
(* PipelineOrchestrator.run constructed with a callback or without one,    *)
(* with resolution disabled: the hook calls of the run.                    *)
(***************************************************************************)
\* run up to its first await: the simulator step has been announced.
InitHooks ==
    /\ InitRunUpTo(0)
    /\ ~resolution_enabled
    /\ \E kind \in CallbackKinds :
        callback = on_step_start(NewCallback(kind), HookName("simulator", "shared"))

NextHooks ==
    \/ SimulatorReturns
    \/ SimulatorRaises
    \/ \E t \in Tracks : TrackStart(t)
    \/ \E t \in Tracks : TrackStageReturns(t)
    \/ \E t \in Tracks : TrackAgentRaises(t)
    \/ GatherRaises
    \/ CompareAgrees
    \/ CompareHalts
    \/ BuildVerdict
    \/ StartWriter
    \/ WriterReturns
    \/ WriterRaises

SpecHooks == InitHooks /\ [][NextHooks]_vars

\* C34: a run with a callback ends with exactly one terminal hook call:
\* on_pipeline_complete when run returned, on_pipeline_fail when run raised.
C34_OneTerminalHook ==
    (RunEnded /\ callback.kind # "none") =>
        callback.pipeline = IF run_pc = "completed" THEN <<"complete">> ELSE <<"fail">>

\* C35: with an InteractiveCallback no stage after the simulator starts before
\* on_checkpoint has been awaited at the boundary in front of it; with a plain
\* ProgressCallback or no callback no checkpoint takes place.
C35_CheckpointAtBoundaries ==
    /\ callback.kind = "interactive" =>
          \A t \in Tracks : track_pc[t] # "idle" => callback.checkpoints >= 1
    /\ callback.kind # "interactive" => callback.checkpoints = 0

\* C39: at every moment, a track step that pipeline_state.json lists as
\* completed, or that was announced through on_step_complete, has passed its
\* schema validation gate.
C39_CompletedMeansValidated ==
    \A t \in Tracks, st \in StageNames :
        (\/ state_file.steps[StepName(st, t)] = "completed"
         \/ HookName(st, t) \in callback.completed) => gate[t][st] = "validated"

\* C40: every step name carried by an on_step_retry, on_step_complete or
\* on_step_fail call is one that on_step_start was called with earlier in the
\* run.
C40_EventsNameStartedSteps ==
    (callback.retried \cup callback.completed \cup callback.failed) \subseteq callback.started

\* The mismatching comparison that comes first in `comparisons`.
EarliestMismatch(comparisons) ==
    comparisons[CHOOSE i \in Mismatching(comparisons) :
                    \A j \in Mismatching(comparisons) : i <= j]

\* C36: the comparison after each rerun covers all three stages, and the next
\* iteration diagnoses the first disagreeing stage of that comparison and
\* reruns the diagnosed track from that stage.
C36_IterationFollowsRecomparison ==
    [][/\ (rpc = "compare" /\ rpc' # "compare") =>
            /\ Len(arg') = Len(StageOrder)
            /\ \A i \in DOMAIN arg' : arg'[i].stage = StageOrder[i]
            /\ Len(compare_log') = reruns
       /\ (RerunStarts /\ reruns >= 1) =>
            /\ current_disagreement = EarliestMismatch(arg)
            /\ failing_track' = _diagnose(EarliestMismatch(arg))
            /\ call'.agent = EarliestMismatch(arg).stage
            /\ call'.track_id = failing_track'
            /\ call'.hint]_vars

\* The second iteration reruns another track from another stage than the
\* first iteration did.
C36_Witness ==
    /\ rpc = "rerun"
    /\ reruns = 1
    /\ iteration = 2
    /\ Len(rerun_log) = 1
    /\ rerun_log[1].stage # comparison_result.first_disagreement.stage
    /\ failing_track # _diagnose(comparison_result.first_disagreement)

(***************************************************************************)
(* SchemaValidator.validate_stats and StageComparator.compare_stats on the *)
(* stats output directories of the two tracks.  A directory is described   *)
(* by the state of its files and by what results.json holds: each table is *)
(* absent or holds a set of keys, one metric may hold JSON null, every     *)
(* other metric present holds the same count of its unit.                  *)
(***************************************************************************)
\* The metrics in the order compare_stats reads them, and where each lives.
MetricOrder ==
    <<"n_subjects", "n_events", "n_censored", "logrank_p", "cox_hr",
      "km_median_treatment", "km_median_placebo">>

TableOf(metric) ==
    IF metric \in {"n_subjects", "n_events", "n_censored"} THEN "metadata"
    ELSE IF metric = "cox_hr" THEN "table3"
    ELSE "table2"

TableKeys(table) == { m \in Metrics : TableOf(m) = table }

Absent == {"absent"}

TableStates(table) == {Absent} \cup SUBSET TableKeys(table)

FileFaults == {"results_missing", "results_invalid", "plot_missing", "plot_empty"}

CompleteResults(v) ==
    [files |-> "ok", metadata |-> TableKeys("metadata"), table2 |-> TableKeys("table2"),
     table3 |-> TableKeys("table3"), null |-> None, value |-> v]

StatsOutputs ==
    { [files |-> "ok", metadata |-> md, table2 |-> t2, table3 |-> t3, null |-> nl,
       value |-> 0] :
        md \in TableStates("metadata"), t2 \in TableStates("table2"),
        t3 \in TableStates("table3"), nl \in Metrics \cup {None} }
    \cup { [CompleteResults(0) EXCEPT !.files = f] : f \in FileFaults }

validate_stats(out) ==
    LET files ==
            Issue(out.files = "plot_missing", "Missing expected file: km_plot.png")
            \o Issue(out.files = "results_missing", "Missing expected file: results.json")
        structure ==
            IF out.files = "results_missing" THEN <<>>
            ELSE IF out.files = "results_invalid" THEN <<"results.json: invalid JSON">>
            ELSE (IF out.table2 = Absent THEN <<"results.json: missing 'table2' key">>
                  ELSE Issue("logrank_p" \notin out.table2,
                             "results.json: missing 'table2.logrank_p' key"))
                 \o (IF out.table3 = Absent THEN <<"results.json: missing 'table3' key">>
                     ELSE Issue("cox_hr" \notin out.table3,
                                "results.json: missing 'table3.cox_hr' key"))
        plot == Issue(out.files = "plot_empty", "km_plot.png: file is empty (0 bytes)")
        issue_list == files \o structure \o plot
    IN  IF issue_list # <<>> THEN SchemaValidationError("Stats", issue_list) ELSE Passed

\* float(results[table][metric]): the exception it raises, or None.
ReadError(out, metric) ==
    IF out[TableOf(metric)] = Absent \/ metric \notin out[TableOf(metric)]
    THEN "KeyError"
    ELSE IF out.null = metric THEN "TypeError"
    ELSE None

MetricValue(out, metric) == IF metric = "cox_hr" THEN 1000 + out.value ELSE out.value

RECURSIVE FirstReadError(_, _, _)
FirstReadError(out_a, out_b, i) ==
    IF i > Len(MetricOrder) THEN None
    ELSE IF ReadError(out_a, MetricOrder[i]) # None THEN ReadError(out_a, MetricOrder[i])
    ELSE IF ReadError(out_b, MetricOrder[i]) # None THEN ReadError(out_b, MetricOrder[i])
    ELSE FirstReadError(out_a, out_b, i + 1)

Raises(error) == [raised |-> TRUE, error |-> error, comparisons |-> <<>>]

compare_stats(out_a, out_b) ==
    IF \E out \in {out_a, out_b} : out.files = "results_missing"
    THEN Raises("FileNotFoundError")
    ELSE IF \E out \in {out_a, out_b} : out.files = "results_invalid"
    THEN Raises("JSONDecodeError")
    ELSE IF FirstReadError(out_a, out_b, 1) # None
    THEN Raises(FirstReadError(out_a, out_b, 1))
    ELSE [raised |-> FALSE, error |-> None,
          comparisons |->
            <<StageComparison("stats",
                \A m \in Metrics : within(m, MetricValue(out_a, m), MetricValue(out_b, m)),
                [m \in Metrics |-> MetricValue(out_a, m)],
                [m \in Metrics |-> MetricValue(out_b, m)])>>]

\* compare_all_stages: compare_sdtm, compare_adam, compare_stats in sequence.
\* The SDTM and ADaM comparisons are taken by their outcome.
compare_all_stages(sdtm, adam, out_a, out_b) ==
    LET stats == compare_stats(out_a, out_b)
    IN  IF stats.raised THEN stats
        ELSE [stats EXCEPT !.comparisons = <<sdtm, adam>> \o @]

InitStats ==
    /\ InitProgramOff
    /\ cache = [k \in Keys |-> NoScript]
    /\ arg \in { [track_a |-> a, track_b |-> b, sdtm_matches |-> sm, adam_matches |-> am] :
                    a \in StatsOutputs, b \in {CompleteResults(0), CompleteResults(1)},
                    sm \in BOOLEAN, am \in BOOLEAN }
    /\ ret = NoReturn

\* The last step of _run_track in each track: validate_stats on its output.
ValidateStats ==
    /\ ret = NoReturn
    /\ ret' = [done |-> FALSE,
               value |-> <<validate_stats(arg.track_a), validate_stats(arg.track_b)>>]
    /\ PureFrame

\* run: both tracks returned, so no gate raised; compare_all_stages follows.
CompareGatedOutputs ==
    /\ ~ret.done
    /\ ret.value # <<>>
    /\ \A i \in 1..2 : ~ret.value[i].raised
    /\ ret' = Return(compare_all_stages(
                        StageComparison("sdtm", arg.sdtm_matches, EmptySummary, EmptySummary),
                        StageComparison("adam", arg.adam_matches, EmptySummary, EmptySummary),
                        arg.track_a, arg.track_b))
    /\ PureFrame

NextStats == ValidateStats \/ CompareGatedOutputs

SpecStats == InitStats /\ [][NextStats]_vars

\* C38: if both tracks passed the validation gates, compare_all_stages returns
\* a result with three comparisons and does not raise.
C38_ComparatorReadsAreGated ==
    ret.done => /\ ~ret.value.raised
                /\ Len(ret.value.comparisons) = 3

(***************************************************************************)
(* SpecOrphan: run with resolution disabled and no callback, followed past *)
(* the moment gather hands the first track's exception to run.  gather     *)
(* does not cancel the other track's task: while the event loop goes on    *)
(* the task is resumed when its sandbox execution ends; when the loop is   *)
(* shut down (asyncio.run in the CLI) the task is cancelled at its await.  *)
(***************************************************************************)
InitOrphan ==
    /\ InitRunUpTo(0)
    /\ ~resolution_enabled
    /\ InitHooksOff

\* The other track's _run_agent returns after run raised.
OrphanStageReturns(t) ==
    /\ run_pc = "raised"
    /\ StageReturnsInTrack(t)

\* asyncio.run cancels the tasks that remain: CancelledError is raised at
\* the await of the other track's _run_agent and leaves _run_track.
OrphanCancelled(t) ==
    /\ run_pc = "raised"
    /\ track_pc[t] \in StageNames
    /\ track_pc' = [track_pc EXCEPT ![t] = "cancelled"]
    /\ UNCHANGED <<agent_vars, exec_vars, hook_vars, pure_vars, resolve_vars,
                   resolution_enabled, run_pc, state, state_file, recorded,
                   comparison_result, verdict, verdict_file, raised, writer_starts,
                   stage_comparisons_file>>

NextOrphan ==
    \/ NextHooks
    \/ \E t \in Tracks : OrphanStageReturns(t)
    \/ \E t \in Tracks : OrphanCancelled(t)

SpecOrphan == InitOrphan /\ [][NextOrphan]_vars

\* C37: when run has terminated, by returning or by raising because one track
\* failed, no track is still awaiting a stage's agent, no track starts a
\* stage and pipeline_state.json is not written any more.
C37_TracksStoppedWhenRunEnds ==
    /\ [](RunEnded => \A t \in Tracks : track_pc[t] \notin StageNames)
    /\ [][RunEnded =>
            /\ state_file' = state_file
            /\ \A t \in Tracks :
                track_pc'[t] \in StageNames => track_pc'[t] = track_pc[t]]_vars
====
